---- MODULE Spec2Model ----
(***************************************************************************)
(* Trading Decision & Risk Engine of polymarket-btc-5m-assistant.          *)
(*                                                                         *)
(* Units.  Money is in integer cents, prices in cents per share, model     *)
(* probabilities in percent, wall-clock time in milliseconds (Date.now()), *)
(* durations given in seconds by the configuration are multiplied by 1000  *)
(* exactly where the code multiplies them.  A nullable JavaScript value is *)
(* the empty tuple (null) or a one-element tuple <<v>>.                    *)
(***************************************************************************)
EXTENDS Integers, Sequences, FiniteSets, TLC

\* ------------------------------------------------------------------------
\* Nullable values
\* ------------------------------------------------------------------------
NONE == <<>>
Some(v) == <<v>>
isNum(x) == x # NONE
Val(x) == x[1]
Max(a, b) == IF a >= b THEN a ELSE b
Min(a, b) == IF a <= b THEN a ELSE b
Abs(a) == IF a < 0 THEN -a ELSE a

\* Map helpers (a JavaScript Map is a function whose domain is its key set)
MapGet(m, k, dflt) == IF k \in DOMAIN m THEN m[k] ELSE dflt
MapSet(m, k, v) == [x \in (DOMAIN m) \cup {k} |-> IF x = k THEN v ELSE m[x]]
MapDelete(m, k) == [x \in (DOMAIN m) \ {k} |-> m[x]]
EmptyMap == [x \in {} |-> 0]

\* ------------------------------------------------------------------------
\* Bounds of the model
\* ------------------------------------------------------------------------
MaxTime == 2
MaxDay == 1
MaxTrades == 2
MaxMarket == 2
MaxExits == 4
MaxSwitches == 1

\* The clock: Date.now() at start-up and the length of one clock step, in ms.
StartMs == 100000
StepMs == 5000

\* CONFIG.pollIntervalMs: the main loop sleeps this long after every tick
PollIntervalMs == 2000

\* A clock step between the poll interval and the 5 s after which a flat live
\* executor fetches its trades again
FineStepMs == 2500

\* ------------------------------------------------------------------------
\* Configuration (config.js; every knob is overridable from the environment,
\* the durations are chosen short so that they elapse within MaxTime steps,
\* the trade size is pinned by minTradeUsd = maxTradeUsd and the entry price
\* by minPolyPrice = maxEntryPolyPrice so that share counts are whole)
\* ------------------------------------------------------------------------
PaperCfg ==
  [ exitBeforeEndMs |-> 60000,
    noEntryFinalMs |-> 90000,
    dynamicStopLossEnabled |-> FALSE,
    dynamicStopLossPct |-> 20,
    minMaxLossUsd |-> 800,
    maxMaxLossUsd |-> 4000,
    maxLossUsdPerTrade |-> Some(1500),
    maxLossGraceEnabled |-> TRUE,
    maxLossGraceSeconds |-> 5,
    maxLossRecoverUsd |-> Some(1000),
    maxLossGraceRequireModelSupport |-> TRUE,
    takeProfitPrice |-> NONE,
    trailingTakeProfitEnabled |-> TRUE,
    trailingStartUsd |-> 2000,
    trailingDrawdownUsd |-> 1000,
    takeProfitImmediate |-> FALSE,
    takeProfitPnlUsd |-> 2500,
    loserMaxHoldSeconds |-> 5,
    stopLossEnabled |-> FALSE,
    stopLossPct |-> 20,
    exitFlipMinProb |-> 55,
    exitFlipMargin |-> 3,
    exitFlipMinHoldSeconds |-> 0,
    minLiquidity |-> 0,
    lossCooldownSeconds |-> 5,
    winCooldownSeconds |-> 0,
    skipMarketAfterMaxLoss |-> TRUE,
    circuitBreakerConsecutiveLosses |-> 0,
    circuitBreakerCooldownMs |-> 10000,
    minPolyPrice |-> 50,
    maxPolyPrice |-> 98,
    maxEntryPolyPrice |-> Some(50),
    stakePct |-> 8,
    contractSize |-> 10000,
    minTradeUsd |-> 5000,
    maxTradeUsd |-> 5000,
    startingBalance |-> 100000,
    maxPerTradeUsd |-> NONE,
    maxOpenExposureUsd |-> NONE,
    maxDailyLossUsd |-> NONE ]

\* { ...CONFIG.paperTrading, ...CONFIG.liveTrading }
LiveCfg ==
  [PaperCfg EXCEPT !.maxPerTradeUsd = Some(5000),
                   !.maxOpenExposureUsd = Some(5000),
                   !.maxDailyLossUsd = Some(2000)]

\* MAX_LOSS_GRACE_ENABLED=false
NoGraceCfg == [PaperCfg EXCEPT !.maxLossGraceEnabled = FALSE]

\* LOSS_COOLDOWN_SECONDS=10 WIN_COOLDOWN_SECONDS=10: both cooldowns outlast the
\* gap between two ticks of the model
CoolCfg == [PaperCfg EXCEPT !.lossCooldownSeconds = 10, !.winCooldownSeconds = 10]

\* { ...CONFIG.paperTrading, ...CONFIG.liveTrading } under the same environment
CoolLiveCfg == [LiveCfg EXCEPT !.lossCooldownSeconds = 10, !.winCooldownSeconds = 10]

\* ------------------------------------------------------------------------
\* TradingState (src/application/TradingState.js)
\* ------------------------------------------------------------------------
NewTradingState ==
  [ lastLossAtMs |-> NONE,
    lastWinAtMs |-> NONE,
    skipMarketUntilNextSlug |-> NONE,
    hasOpenPosition |-> FALSE,
    mfeByPos |-> EmptyMap,
    maeByPos |-> EmptyMap,
    graceByPos |-> EmptyMap,
    todayRealizedPnl |-> 0,
    todayKey |-> NONE,
    consecutiveLosses |-> 0,
    circuitBreakerTrippedAtMs |-> NONE ]

\* Mutant of trackMFE: the first value tracked is kept, never raised.
trackMFE_KeepFirst(s, posId, pnl) ==
  [s EXCEPT !.mfeByPos = MapSet(@, posId, MapGet(@, posId, pnl))]

trackMFE(s, posId, pnl) ==
  [s EXCEPT !.mfeByPos = MapSet(@, posId, Max(MapGet(@, posId, pnl), pnl))]

trackMAE(s, posId, pnl) ==
  [s EXCEPT !.maeByPos = MapSet(@, posId, Min(MapGet(@, posId, pnl), pnl))]

getMaxUnrealized(s, posId) ==
  IF posId \in DOMAIN s.mfeByPos THEN Some(s.mfeByPos[posId]) ELSE NONE

getMinUnrealized(s, posId) ==
  IF posId \in DOMAIN s.maeByPos THEN Some(s.maeByPos[posId]) ELSE NONE

NoGrace == [breachAtMs |-> NONE, used |-> FALSE]

getGraceState(s, posId) == MapGet(s.graceByPos, posId, NoGrace)

startGrace(s, posId, nowMs) ==
  [s EXCEPT !.graceByPos = MapSet(@, posId, [breachAtMs |-> Some(nowMs), used |-> TRUE])]

clearGrace(s, posId) ==
  IF posId \in DOMAIN s.graceByPos
    THEN [s EXCEPT !.graceByPos[posId].breachAtMs = NONE]
    ELSE s

clearPosition(s, posId) ==
  [s EXCEPT !.mfeByPos = MapDelete(@, posId),
            !.maeByPos = MapDelete(@, posId),
            !.graceByPos = MapDelete(@, posId)]

updateDailyPnl(s, pnl) == [s EXCEPT !.todayRealizedPnl = @ + pnl]

\* Mutant of recordExit: a zero PnL is counted as a loss.
recordExit_ZeroIsLoss(s, pnl, marketSlug, startsMaxLoss, skipAfterMaxLoss, nowMs) ==
  LET s1 == IF pnl <= 0
              THEN [s EXCEPT !.lastLossAtMs = Some(nowMs),
                             !.consecutiveLosses = @ + 1]
              ELSE [s EXCEPT !.lastWinAtMs = Some(nowMs),
                             !.consecutiveLosses = 0]
      s2 == IF startsMaxLoss /\ isNum(marketSlug) /\ skipAfterMaxLoss
              THEN [s1 EXCEPT !.skipMarketUntilNextSlug = marketSlug]
              ELSE s1
  IN updateDailyPnl(s2, pnl)

\* reason is the exit reason; startsMaxLoss says whether it starts with "Max Loss"
recordExit(s, pnl, marketSlug, startsMaxLoss, skipAfterMaxLoss, nowMs) ==
  LET s1 == IF pnl < 0
              THEN [s EXCEPT !.lastLossAtMs = Some(nowMs),
                             !.consecutiveLosses = @ + 1]
              ELSE [s EXCEPT !.lastWinAtMs = Some(nowMs),
                             !.consecutiveLosses = 0]
      s2 == IF startsMaxLoss /\ isNum(marketSlug) /\ skipAfterMaxLoss
              THEN [s1 EXCEPT !.skipMarketUntilNextSlug = marketSlug]
              ELSE s1
  IN updateDailyPnl(s2, pnl)

\* Mutant of checkCircuitBreaker: the counter is not reset when the cooldown
\* has elapsed.
checkCircuitBreaker_NoReset(s, maxConsecutive, cooldownMs, nowMs) ==
  LET stillTripped == isNum(s.circuitBreakerTrippedAtMs)
                        /\ nowMs - Val(s.circuitBreakerTrippedAtMs) < cooldownMs
      s1 == IF isNum(s.circuitBreakerTrippedAtMs) /\ ~stillTripped
              THEN [s EXCEPT !.circuitBreakerTrippedAtMs = NONE]
              ELSE s
  IN IF stillTripped
       THEN [state |-> s, tripped |-> TRUE,
             remaining |-> cooldownMs - (nowMs - Val(s.circuitBreakerTrippedAtMs))]
       ELSE IF s1.consecutiveLosses >= maxConsecutive
         THEN [state |-> [s1 EXCEPT !.circuitBreakerTrippedAtMs = Some(nowMs)],
               tripped |-> TRUE, remaining |-> cooldownMs]
         ELSE [state |-> s1, tripped |-> FALSE, remaining |-> 0]

\* Returns the new state together with the {tripped, remaining} result.
checkCircuitBreaker(s, maxConsecutive, cooldownMs, nowMs) ==
  LET stillTripped == isNum(s.circuitBreakerTrippedAtMs)
                        /\ nowMs - Val(s.circuitBreakerTrippedAtMs) < cooldownMs
      s1 == IF isNum(s.circuitBreakerTrippedAtMs) /\ ~stillTripped
              THEN [s EXCEPT !.circuitBreakerTrippedAtMs = NONE,
                             !.consecutiveLosses = 0]
              ELSE s
  IN IF stillTripped
       THEN [state |-> s, tripped |-> TRUE,
             remaining |-> cooldownMs - (nowMs - Val(s.circuitBreakerTrippedAtMs))]
       ELSE IF s1.consecutiveLosses >= maxConsecutive
         THEN [state |-> [s1 EXCEPT !.circuitBreakerTrippedAtMs = Some(nowMs)],
               tripped |-> TRUE, remaining |-> cooldownMs]
         ELSE [state |-> s1, tripped |-> FALSE, remaining |-> 0]

resetDayIfNeeded(s, key) ==
  IF s.todayKey # Some(key)
    THEN [s EXCEPT !.todayKey = Some(key), !.todayRealizedPnl = 0]
    ELSE s

\* ------------------------------------------------------------------------
\* ExitEvaluator (src/domain/exitEvaluator.js)
\* ------------------------------------------------------------------------
NoDecision == "null"
NoAction == "null"

\* contractSize is a whole number of dollars in every position of the model,
\* so contractSize * pct / 100 is exact.
computeMaxLossUsd(contractSize, config) ==
  IF config.dynamicStopLossEnabled /\ isNum(contractSize) /\ Val(contractSize) > 0
    THEN Some(Max(config.minMaxLossUsd,
                  Min(config.maxMaxLossUsd,
                      (Val(contractSize) * config.dynamicStopLossPct) \div 100)))
    ELSE config.maxLossUsdPerTrade

\* Age of the trade in milliseconds (the code keeps seconds as a float).
tradeAgeMs(position, now) ==
  IF isNum(position.entryTime) /\ Val(position.entryTime) > 0
    THEN Some(now - Val(position.entryTime))
    ELSE IF isNum(position.lastTradeTime) /\ Val(position.lastTradeTime) > 0
      THEN Some(((now \div 1000) - Val(position.lastTradeTime)) * 1000)
      ELSE NONE

timeLeftForExit(signals, now) ==
  IF isNum(signals.endDate) THEN Some(Val(signals.endDate) - now) ELSE signals.timeLeftMs

opposingMoreLikely(position, signals, config, now) ==
  LET age == tradeAgeMs(position, now)
      holdOk == IF age = NONE THEN TRUE ELSE Val(age) >= config.exitFlipMinHoldSeconds * 1000
      upP == signals.modelUp
      downP == signals.modelDown
  IN IF holdOk /\ isNum(upP) /\ isNum(downP)
       THEN IF position.side = "UP"
              THEN Val(downP) >= config.exitFlipMinProb
                     /\ Val(downP) >= Val(upP) + config.exitFlipMargin
              ELSE Val(upP) >= config.exitFlipMinProb
                     /\ Val(upP) >= Val(downP) + config.exitFlipMargin
       ELSE FALSE

stopLossHit(position, config) ==
  IF isNum(position.unrealizedPnl) /\ isNum(position.contractSize)
       /\ Val(position.contractSize) > 0
    THEN Val(position.unrealizedPnl) * 100
           <= -Abs(Val(position.contractSize) * config.stopLossPct)
    ELSE FALSE

isLowLiquidity(signals, config) ==
  IF config.minLiquidity > 0
    THEN ~(isNum(signals.liquidityNum) /\ Val(signals.liquidityNum) >= config.minLiquidity)
    ELSE FALSE

okForGrace(position, signals, config, now) ==
  LET tl == timeLeftForExit(signals, now)
      sideProb == IF position.side = "UP" THEN signals.modelUp ELSE signals.modelDown
      oppProb == IF position.side = "UP" THEN signals.modelDown ELSE signals.modelUp
      modelSupports == IF isNum(sideProb) /\ isNum(oppProb)
                         THEN Val(sideProb) >= 55 /\ Val(sideProb) >= Val(oppProb)
                         ELSE FALSE
  IN /\ config.maxLossGraceEnabled
     /\ config.maxLossGraceSeconds > 0
     /\ (IF isNum(tl) THEN Val(tl) >= config.exitBeforeEndMs + 15000 ELSE TRUE)
     /\ ~isLowLiquidity(signals, config)
     /\ (~config.maxLossGraceRequireModelSupport \/ modelSupports)

\* JavaScript truthiness of graceState.breachAtMs
breachSet(graceState) == isNum(graceState.breachAtMs) /\ Val(graceState.breachAtMs) # 0

\* Mutant of graceExpired: the elapsed time is compared with the grace
\* duration in seconds instead of milliseconds.
graceExpired_SecondsForMs(graceState, config, now) ==
  now - Val(graceState.breachAtMs) >= config.maxLossGraceSeconds

\* The running grace timer has used up the grace duration.
graceExpired(graceState, config, now) ==
  now - Val(graceState.breachAtMs) >= config.maxLossGraceSeconds * 1000

\* Step 3 of evaluateExits: [decision, graceAction] of the max-loss rule.
maxLossRule(position, signals, config, graceState, now) ==
  LET pnl == position.unrealizedPnl
      maxLossUsd == computeMaxLossUsd(position.contractSize, config)
  IN IF isNum(pnl) /\ isNum(maxLossUsd) /\ Val(maxLossUsd) > 0
       THEN LET maxLossAbs == Abs(Val(maxLossUsd))
                breached == Val(pnl) <= -maxLossAbs
                recoverThresh ==
                  IF isNum(config.maxLossRecoverUsd) /\ Val(config.maxLossRecoverUsd) > 0
                    THEN -Abs(Val(config.maxLossRecoverUsd))
                    ELSE -maxLossAbs + 100
                clearAct == IF breachSet(graceState) /\ Val(pnl) > recoverThresh
                              THEN "CLEAR_GRACE" ELSE NoAction
            IN IF breached
                 THEN IF okForGrace(position, signals, config, now)
                        THEN IF ~graceState.used /\ ~breachSet(graceState)
                               THEN [decision |-> NoDecision, graceAction |-> "START_GRACE"]
                               ELSE IF breachSet(graceState)
                                 THEN IF graceExpired(graceState, config, now)
                                        THEN [decision |-> "Max Loss", graceAction |-> clearAct]
                                        ELSE [decision |-> NoDecision, graceAction |-> clearAct]
                                 ELSE [decision |-> "Max Loss", graceAction |-> clearAct]
                        ELSE [decision |-> "Max Loss", graceAction |-> clearAct]
                 ELSE [decision |-> NoDecision, graceAction |-> clearAct]
       ELSE [decision |-> NoDecision, graceAction |-> NoAction]

\* Steps 4..8 of evaluateExits, in the order of the code.
lowerRules(position, signals, config, now) ==
  LET pnl == position.unrealizedPnl
      age == tradeAgeMs(position, now)
      maxU == position.maxUnrealizedPnl
  IN IF isNum(config.takeProfitPrice) /\ isNum(position.mark)
          /\ Val(position.mark) >= Val(config.takeProfitPrice)
       THEN "Take Profit (mark)"
     ELSE IF isNum(pnl) /\ config.trailingTakeProfitEnabled
          /\ config.trailingStartUsd > 0 /\ config.trailingDrawdownUsd > 0
          /\ isNum(maxU) /\ Val(maxU) >= config.trailingStartUsd
          /\ Val(pnl) <= Val(maxU) - config.trailingDrawdownUsd
       THEN "Trailing TP"
     ELSE IF ~config.trailingTakeProfitEnabled /\ config.takeProfitImmediate /\ isNum(pnl)
          /\ config.takeProfitPnlUsd >= 0 /\ Val(pnl) >= config.takeProfitPnlUsd
       THEN "Take Profit"
     ELSE IF isNum(pnl) /\ isNum(age) /\ config.loserMaxHoldSeconds > 0
          /\ Val(age) >= config.loserMaxHoldSeconds * 1000 /\ Val(pnl) < 0
       THEN "Time Stop"
     ELSE IF config.stopLossEnabled /\ stopLossHit(position, config)
          /\ opposingMoreLikely(position, signals, config, now)
       THEN "Stop Loss"
     ELSE NoDecision

\* Mutant of evaluateExits: the pre-settlement check runs before the
\* rollover check.
evaluateExits_PreSettlementFirst(position, signals, config, graceState, now) ==
  LET tl == timeLeftForExit(signals, now)
      ml == maxLossRule(position, signals, config, graceState, now)
      base == [decision |-> NoDecision, graceAction |-> NoAction,
               pnlNow |-> position.unrealizedPnl,
               opposingMoreLikely |-> opposingMoreLikely(position, signals, config, now)]
  IN IF isNum(tl) /\ Val(tl) < config.exitBeforeEndMs
       THEN [base EXCEPT !.decision = "Pre-settlement Exit"]
     ELSE IF isNum(position.marketSlug) /\ isNum(signals.slug)
          /\ position.marketSlug # signals.slug
       THEN [base EXCEPT !.decision = "Market Rollover"]
     ELSE IF ml.decision # NoDecision
       THEN [base EXCEPT !.decision = ml.decision, !.graceAction = ml.graceAction]
     ELSE [base EXCEPT !.decision = lowerRules(position, signals, config, now),
                       !.graceAction = ml.graceAction]

evaluateExits(position, signals, config, graceState, now) ==
  LET tl == timeLeftForExit(signals, now)
      ml == maxLossRule(position, signals, config, graceState, now)
      base == [decision |-> NoDecision, graceAction |-> NoAction,
               pnlNow |-> position.unrealizedPnl,
               opposingMoreLikely |-> opposingMoreLikely(position, signals, config, now)]
  IN IF isNum(position.marketSlug) /\ isNum(signals.slug)
          /\ position.marketSlug # signals.slug
       THEN [base EXCEPT !.decision = "Market Rollover"]
     ELSE IF isNum(tl) /\ Val(tl) < config.exitBeforeEndMs
       THEN [base EXCEPT !.decision = "Pre-settlement Exit"]
     ELSE IF ml.decision # NoDecision
       THEN [base EXCEPT !.decision = ml.decision, !.graceAction = ml.graceAction]
     ELSE [base EXCEPT !.decision = lowerRules(position, signals, config, now),
                       !.graceAction = ml.graceAction]

\* Mutant of capPnl: the loss is capped but the exit price is left as it was.
capPnl_KeepsExitPrice(rawPnl, contractSize, shares, exitPrice, config) ==
  LET maxLossUsd == computeMaxLossUsd(Some(contractSize), config)
  IN IF isNum(maxLossUsd) /\ Val(maxLossUsd) > 0 /\ rawPnl < -Abs(Val(maxLossUsd))
       THEN [pnl |-> -Abs(Val(maxLossUsd)), num |-> exitPrice, den |-> 1]
       ELSE [pnl |-> rawPnl, num |-> exitPrice, den |-> 1]

\* Max-loss cap of a realized PnL.  The capped exit price is the exact
\* quotient num / den.
capPnl(rawPnl, contractSize, shares, exitPrice, config) ==
  LET maxLossUsd == computeMaxLossUsd(Some(contractSize), config)
  IN IF isNum(maxLossUsd) /\ Val(maxLossUsd) > 0 /\ rawPnl < -Abs(Val(maxLossUsd))
       THEN LET cappedPnl == -Abs(Val(maxLossUsd))
                cappedValue == contractSize + cappedPnl
            IN IF shares > 0 /\ cappedValue > 0
                 THEN [pnl |-> cappedPnl, num |-> cappedValue, den |-> shares]
                 ELSE [pnl |-> cappedPnl, num |-> exitPrice, den |-> 1]
       ELSE [pnl |-> rawPnl, num |-> exitPrice, den |-> 1]

\* ------------------------------------------------------------------------
\* State
\* ------------------------------------------------------------------------
VARIABLES
  now,            \* Date.now(), in ms
  today,          \* calendar day key of resetDayIfNeeded
  market,         \* slug of the market the signal snapshot is about
  tradingEnabled, \* TradingEngine.tradingEnabled
  executor,       \* TradingEngine.executor: "paper" or "live"
  mmMode,         \* ModeManager._mode
  cfgMode,        \* which merged config TradingEngine.config is
  st,             \* TradingEngine.state, a TradingState
  stGen,          \* identity of the TradingState object in TradingEngine.state
  pc,             \* position of processSignals ("idle" between ticks)
  tk,             \* locals of the running tick
  ledger,         \* paper ledger: trade id -> trade
  paperOpenTrade, \* PaperExecutor.openTrade (a trade id or null)
  venue,          \* live venue: token -> position built from the trade history
  liveCache,      \* LiveExecutor._cachedTrades, as the positions it yields
  obs,            \* observations made for the properties
  exIn,           \* arguments of an isolated evaluateExits call
  exOut           \* its result

vars == <<now, today, market, tradingEnabled, executor, mmMode, cfgMode, st, stGen,
          pc, tk, ledger, paperOpenTrade, venue, liveCache, obs, exIn, exOut>>

engineVars == <<tradingEnabled, executor, mmMode, cfgMode, st, stGen>>
execVars == <<ledger, paperOpenTrade, venue, liveCache>>
pureVars == <<exIn, exOut>>

\* ------------------------------------------------------------------------
\* Signal snapshot handed to processSignals.  The traded side is UP; the
\* model probabilities support it.  px is the Polymarket price of the UP
\* outcome in cents; the quote is stable over one tick.
\* ------------------------------------------------------------------------
Prices == {25, 50}
Side == "UP"
InitMarket == [slug |-> 1, closing |-> FALSE]

Snapshot(m, px) == [slug |-> m.slug, closing |-> m.closing, px |-> px]

\* Settlement timer of the snapshot, in ms
timeLeftMs(sig) == IF sig.closing THEN 30000 ELSE 120000

\* The fields of the snapshot that evaluateExits reads
EvalSignals(sig) ==
  [slug |-> Some(sig.slug), endDate |-> NONE, timeLeftMs |-> Some(timeLeftMs(sig)),
   modelUp |-> Some(60), modelDown |-> Some(40), liquidityNum |-> NONE]

Cfg(mode) ==
  IF mode = "live" THEN LiveCfg
  ELSE IF mode = "paper" THEN PaperCfg
  ELSE IF mode = "cool" THEN CoolCfg
  ELSE IF mode = "coollive" THEN CoolLiveCfg
  ELSE NoGraceCfg

\* posId = p.id || p.tokenID || 'default' (every view of the model has an id)
PosId(p) == p.id

\* ------------------------------------------------------------------------
\* Paper ledger (collaborator paper_trading/ledger.js)
\* ------------------------------------------------------------------------
OpenIds(l) == {id \in DOMAIN l : l[id].status = "OPEN"}

\* getOpenTrade: the first trade of the ledger whose status is OPEN
ledgerGetOpenTrade(l) ==
  IF OpenIds(l) = {} THEN NONE
  ELSE Some(CHOOSE id \in OpenIds(l) : \A o \in OpenIds(l) : id[2] <= o[2])

addTrade(l, id, trade) == MapSet(l, id, trade)

updateTrade(l, id, trade) == IF id \in DOMAIN l THEN MapSet(l, id, trade) ELSE l

\* ------------------------------------------------------------------------
\* PaperExecutor (infrastructure/executors/PaperExecutor, in LiveExecutor.js)
\* ------------------------------------------------------------------------
\* Mutant of NewTradeId: the id of the latest trade is given out again.
NewTradeId_Reuse(l) == <<"trade", Max(1, Cardinality(DOMAIN l))>>

\* Trade ids are unique; the model numbers them.
NewTradeId(l) == <<"trade", Cardinality(DOMAIN l) + 1>>

PaperView(id, t) ==
  [id |-> id, side |-> Side, marketSlug |-> Some(t.marketSlug),
   entryPrice |-> t.entryPrice, shares |-> t.shares,
   contractSize |-> Some(t.contractSize), mark |-> NONE, unrealizedPnl |-> NONE,
   maxUnrealizedPnl |-> Some(0), minUnrealizedPnl |-> Some(0),
   entryTime |-> Some(t.entryTime), lastTradeTime |-> NONE, tokenID |-> t.tokenID]

\* getOpenPositions: re-reads the open trade from the ledger
PaperGetOpenPositions(l) ==
  LET o == ledgerGetOpenTrade(l)
  IN IF o = NONE THEN <<>> ELSE <<PaperView(Val(o), l[Val(o)])>>

\* markPositions: mark = polyPricesCents / 100, unrealized = shares * mark - contractSize
PaperMark(p, sig) ==
  [p EXCEPT !.mark = Some(sig.px),
            !.unrealizedPnl = Some(p.shares * sig.px - Val(p.contractSize))]

\* getBalance: starting balance plus the realized PnL of the ledger
SumPnl(l) ==
  LET RECURSIVE Sum(_)
      Sum(S) == IF S = {} THEN 0
                ELSE LET x == CHOOSE y \in S : TRUE IN l[x].pnl + Sum(S \ {x})
  IN Sum(DOMAIN l)

PaperGetBalance(l, config) == config.startingBalance + SumPnl(l)

\* The trade openPosition writes: the simulated fill is at the quote
PaperNewTrade(slug, sizeUsd, price, nowMs) ==
  [status |-> "OPEN", marketSlug |-> slug, entryPrice |-> price,
   shares |-> sizeUsd \div price, contractSize |-> (sizeUsd \div price) * price,
   entryTime |-> nowMs, tokenID |-> Some(<<"token", slug>>), pnl |-> 0]

\* The trade closePosition writes back, and the PnL it returns
PaperClosedTrade(t, exitPrice, config) ==
  LET rawPnl == t.shares * exitPrice - t.contractSize
      c == capPnl(rawPnl, t.contractSize, t.shares, exitPrice, config)
  IN [t EXCEPT !.status = "CLOSED", !.pnl = c.pnl]

\* ------------------------------------------------------------------------
\* Live venue and LiveExecutor (infrastructure/executors/LiveExecutor.js).
\* The venue holds, per token, the net quantity the trade history yields and
\* the time of the last trade; every buy of the model is at the pinned entry
\* price, so the average entry of a token is that price.  An order that the
\* venue accepts is matched at once at its limit price.
\* ------------------------------------------------------------------------
\* The conditional-token allowance is set to the maximum at start-up
InitVenue == [inv |-> EmptyMap, collateral |-> 10000, buys |-> 0, allowance |-> 100000]

InitLive ==
  [inv |-> EmptyMap, lastTradesFetchAttemptMs |-> 0, hadPositionLastLoop |-> FALSE,
   lastExitAttemptMsByToken |-> EmptyMap]

AvgEntry == Val(PaperCfg.maxEntryPolyPrice)

\* getOpenPositions refreshes the cached trades when the polling interval
\* has elapsed (1500 ms after a loop with a position, 5000 ms after a flat one)
LiveRefreshDue(c, nowMs) ==
  nowMs - c.lastTradesFetchAttemptMs >= (IF c.hadPositionLastLoop THEN 1500 ELSE 5000)

LiveRefreshed(c, v, nowMs) ==
  IF LiveRefreshDue(c, nowMs)
    THEN [c EXCEPT !.inv = v.inv, !.lastTradesFetchAttemptMs = nowMs]
    ELSE c

LiveView(tok, pos, sig) ==
  [id |-> tok, side |-> Side, marketSlug |-> Some(sig.slug),
   entryPrice |-> AvgEntry, shares |-> pos.qty,
   contractSize |-> Some(AvgEntry * pos.qty), mark |-> NONE, unrealizedPnl |-> NONE,
   maxUnrealizedPnl |-> Some(0), minUnrealizedPnl |-> Some(0),
   entryTime |-> NONE, lastTradeTime |-> Some(pos.lastTradeTime), tokenID |-> Some(tok)]

\* computePositionsFromTrades: open quantities, largest first
RECURSIVE TokensByQty(_)
TokensByQty(inv) ==
  IF DOMAIN inv = {} THEN <<>>
  ELSE LET top == CHOOSE t \in DOMAIN inv :
                    \A o \in DOMAIN inv :
                      \/ inv[t].qty > inv[o].qty
                      \/ (inv[t].qty = inv[o].qty /\ t[2] <= o[2])
       IN <<top>> \o TokensByQty(MapDelete(inv, top))

LivePositions(c, sig) ==
  LET toks == TokensByQty(c.inv)
  IN [i \in 1..Len(toks) |-> LiveView(toks[i], c.inv[toks[i]], sig)]

\* enrichPositionsWithMarks: unrealized = (mark - avgEntry) * qty
LiveMark(p, sig) ==
  [p EXCEPT !.mark = Some(sig.px),
            !.unrealizedPnl = Some((sig.px - p.entryPrice) * p.shares)]

\* Venue after a matched BUY / SELL of size shares of tok at price
VenueBuy(v, tok, size, price, nowMs) ==
  [v EXCEPT !.inv = MapSet(@, tok,
                      [qty |-> MapGet(@, tok, [qty |-> 0]).qty + size,
                       lastTradeTime |-> nowMs \div 1000]),
            !.collateral = @ - size * price,
            !.buys = @ + 1]

VenueSell(v, tok, size, price, nowMs) ==
  [v EXCEPT !.inv = IF @[tok].qty = size
                      THEN MapDelete(@, tok)
                      ELSE MapSet(@, tok, [qty |-> @[tok].qty - size,
                                           lastTradeTime |-> nowMs \div 1000]),
            !.collateral = @ + size * price]

\* ApprovalService.getSellableQty: floor(min(balance, allowance))
SellableQty(v, tok) ==
  IF tok \in DOMAIN v.inv THEN Min(v.inv[tok].qty, v.allowance) ELSE 0

\* ------------------------------------------------------------------------
\* Sizing (domain/sizing.js) and the entry gate (domain/entryGate.js)
\* ------------------------------------------------------------------------
\* Mutant of computeTradeSize: the size is not capped at the balance.
computeTradeSize_NoBalanceCap(balance, config) ==
  IF balance <= 0 THEN 0
  ELSE LET size == IF config.stakePct > 0 THEN (balance * config.stakePct) \div 100
                                          ELSE config.contractSize
       IN Max(0, Max(config.minTradeUsd, Min(config.maxTradeUsd, size)))

\* Amounts are whole cents, so rounding down to the cent is the integer
\* division of the dynamic size (the bounds and the balance are whole cents).
computeTradeSize(balance, config) ==
  IF balance <= 0 THEN 0
  ELSE LET size == IF config.stakePct > 0 THEN (balance * config.stakePct) \div 100
                                          ELSE config.contractSize
           clamped == Max(config.minTradeUsd, Min(config.maxTradeUsd, size))
       IN Max(0, Min(clamped, balance))

\* The blockers whose outcome depends on the trading state, the clock or the
\* quote; entryOk stands for the gates that read only the indicators and the
\* recommendation.  Returns the blockers and the state after the call.
\* Mutant of SkipMarketBlocks: the skip-market flag is not consulted.
SkipMarketBlocks_Never(config, s, slug) == FALSE

\* 8. Skip market after max loss
SkipMarketBlocks(config, s, slug) ==
  config.skipMarketAfterMaxLoss /\ s.skipMarketUntilNextSlug = Some(slug)

\* Mutant of LossCooldownBlocks: the loss cooldown is not consulted.
LossCooldownBlocks_Never(config, s, nowMs) == FALSE

\* 7. Cooldowns: the loss cooldown
LossCooldownBlocks(config, s, nowMs) ==
  /\ config.lossCooldownSeconds > 0 /\ isNum(s.lastLossAtMs)
  /\ nowMs - Val(s.lastLossAtMs) < config.lossCooldownSeconds * 1000

computeEntryBlockers(sig, entryOk, config, s, nowMs) ==
  LET cb == IF config.circuitBreakerConsecutiveLosses > 0
              THEN checkCircuitBreaker(s, config.circuitBreakerConsecutiveLosses,
                                       config.circuitBreakerCooldownMs, nowMs)
              ELSE [state |-> s, tripped |-> FALSE, remaining |-> 0]
      blockers ==
        (IF ~entryOk THEN {"Rec"} ELSE {})
        \cup (IF timeLeftMs(sig) < config.noEntryFinalMs THEN {"Too late"} ELSE {})
        \cup (IF LossCooldownBlocks(config, s, nowMs) THEN {"Loss cooldown"} ELSE {})
        \cup (IF config.winCooldownSeconds > 0 /\ isNum(s.lastWinAtMs)
                   /\ nowMs - Val(s.lastWinAtMs) < config.winCooldownSeconds * 1000
                THEN {"Win cooldown"} ELSE {})
        \cup (IF SkipMarketBlocks(config, s, sig.slug)
                THEN {"Skip market after Max Loss"} ELSE {})
        \cup (IF s.hasOpenPosition THEN {"Trade already open"} ELSE {})
        \cup (IF sig.px < config.minPolyPrice \/ sig.px > config.maxPolyPrice
                THEN {"Poly price out of bounds"} ELSE {})
        \cup (IF isNum(config.maxEntryPolyPrice) /\ sig.px > Val(config.maxEntryPolyPrice)
                THEN {"Entry price too high"} ELSE {})
        \cup (IF cb.tripped THEN {"Circuit breaker"} ELSE {})
        \cup (IF isNum(config.maxDailyLossUsd) /\ Val(config.maxDailyLossUsd) > 0
                   /\ s.todayRealizedPnl <= -Abs(Val(config.maxDailyLossUsd))
                THEN {"Daily loss kill-switch"} ELSE {})
  IN [blockers |-> blockers, state |-> cb.state]

\* ------------------------------------------------------------------------
\* Executor calls of the engine.  Each returns the executor state after the
\* call and the result handed back; real is the PnL the close realized at the
\* venue or in the ledger (null when nothing was sold).
\* ------------------------------------------------------------------------
\* PaperExecutor.closePosition closes this.openTrade at the simulated fill
PaperClose(l, open, sig) ==
  IF open = NONE
    THEN [ledger |-> l, openTrade |-> open, closed |-> FALSE, pnl |-> 0, real |-> NONE]
    ELSE LET t == PaperClosedTrade(l[Val(open)], sig.px, PaperCfg)
         IN [ledger |-> updateTrade(l, Val(open), t), openTrade |-> NONE,
             closed |-> TRUE, pnl |-> t.pnl, real |-> Some(t.pnl)]

\* PaperExecutor.openPosition has no guard on an already open trade
PaperOpen(l, slug, sizeUsd, price, nowMs) ==
  IF price <= 0 \/ sizeUsd \div price <= 0
    THEN [ledger |-> l, openTrade |-> NONE, filled |-> FALSE]
    ELSE LET id == NewTradeId(l)
         IN [ledger |-> addTrade(l, id, PaperNewTrade(slug, sizeUsd, price, nowMs)),
             openTrade |-> Some(id), filled |-> TRUE]

\* tid = tokenID || tradeId
CloseTid(p) == IF isNum(p.tokenID) THEN Val(p.tokenID) ELSE p.id

LiveExitCooldown(c, tid, nowMs) ==
  nowMs - MapGet(c.lastExitAttemptMsByToken, tid, 0) < 30000

\* What the venue does with a posted order: it refuses it, matches it at once
\* at the limit price, or lets it rest unmatched
Outcomes == {"rejected", "matched", "resting"}

\* size = Math.max(5, floor(shares)), then Math.min(size, sellable)
SellSize(shares, sellable) == Min(Max(5, shares), sellable)

\* LiveExecutor.closePosition; posted is the order handed to
\* createAndPostOrder, whatever the venue answers
LiveClose(c, v, p, sig, nowMs, outcome) ==
  LET tid == CloseTid(p)
      c1 == [c EXCEPT !.lastExitAttemptMsByToken = MapSet(@, tid, nowMs),
                      !.inv = v.inv]
      size == SellSize(p.shares, SellableQty(v, tid))
      order == Some([side |-> "SELL", tok |-> tid, size |-> size, price |-> sig.px])
  IN IF tid = NONE
       THEN [cache |-> c, venue |-> v, closed |-> FALSE, pnl |-> 0, real |-> NONE,
             posted |-> NONE]
     ELSE IF LiveExitCooldown(c, tid, nowMs)
       THEN [cache |-> c, venue |-> v, closed |-> FALSE, pnl |-> 0, real |-> NONE,
             posted |-> NONE]
     ELSE IF size < 5
       THEN [cache |-> c1, venue |-> v, closed |-> FALSE, pnl |-> 0, real |-> NONE,
             posted |-> NONE]
     ELSE IF outcome = "rejected"
       THEN [cache |-> c1, venue |-> v, closed |-> FALSE, pnl |-> 0, real |-> NONE,
             posted |-> order]
     ELSE IF outcome = "resting"
       THEN [cache |-> [c1 EXCEPT !.lastExitAttemptMsByToken = MapDelete(@, tid)],
             venue |-> v, closed |-> TRUE, pnl |-> 0, real |-> NONE, posted |-> order]
     ELSE [cache |-> [c1 EXCEPT !.lastExitAttemptMsByToken = MapDelete(@, tid)],
           venue |-> VenueSell(v, tid, size, sig.px, nowMs),
           closed |-> TRUE, pnl |-> 0,
           real |-> Some((sig.px - AvgEntry) * size), posted |-> order]

\* usd = Math.min(maxPerTradeUsd, collateral, maxOpenExposureUsd)
LiveOpenUsd(v) ==
  Min(Val(LiveCfg.maxPerTradeUsd), Min(v.collateral, Val(LiveCfg.maxOpenExposureUsd)))

\* LiveExecutor.openPosition buys the token of the current market
LiveOpen(v, slug, price, nowMs, outcome) ==
  LET usd == LiveOpenUsd(v)
      size == Max(5, usd \div price)
      order == Some([side |-> "BUY", tok |-> <<"token", slug>>, size |-> size,
                     price |-> price])
  IN IF usd <= 0 \/ price < 1 \/ price > 99
          \/ size * price > Val(LiveCfg.maxPerTradeUsd)
       THEN [venue |-> v, filled |-> FALSE, posted |-> NONE]
     ELSE IF outcome = "rejected"
       THEN [venue |-> v, filled |-> FALSE, posted |-> order]
     ELSE IF outcome = "resting"
       THEN [venue |-> [v EXCEPT !.buys = @ + 1], filled |-> TRUE, posted |-> order]
     ELSE [venue |-> VenueBuy(v, <<"token", slug>>, size, price, nowMs),
           filled |-> TRUE, posted |-> order]

\* ------------------------------------------------------------------------
\* TradingEngine.processSignals, one action per await
\* ------------------------------------------------------------------------
NoTick ==
  [signals |-> Snapshot(InitMarket, 50), positions |-> <<>>, idx |-> 0,
   callee |-> "none", reason |-> NoDecision, gen |-> 0, enabledAtStart |-> FALSE,
   first |-> 0, done |-> 0, refetched |-> NONE, sizeUsd |-> 0, gateCfg |-> "none",
   lastEndMs |-> 0, closeAsked |-> <<>>, fault |-> "none"]

\* processSignals has returned: the main loop sleeps
EndTick(nowMs) == [NoTick EXCEPT !.lastEndMs = nowMs]
NoObs == [none |-> TRUE]

\* Observations: START_GRACE signals per position, whether the last tick
\* returned early while a position was open, whether the mode was switched since the
\* last tick started, the PnL of the last close (realized and recorded), and
\* the PnL realized at the live venue today.
InitObs ==
  [graceStarts |-> EmptyMap, skippedOpen |-> FALSE, sinceSwitch |-> FALSE,
   lastExit |-> NONE, liveDayRealized |-> 0, maxLoss |-> NONE]

\* The ledger file is empty or holds the open trade of an earlier session,
\* which PaperExecutor.initialize loads.
InitLedgers ==
  {EmptyMap,
   [id \in {<<"trade", 1>>} |->
      PaperNewTrade(InitMarket.slug, PaperCfg.minTradeUsd, AvgEntry, StartMs - StepMs)]}

Init ==
  /\ now = StartMs /\ today = 0 /\ market = InitMarket
  /\ tradingEnabled = FALSE
  /\ executor = "live" /\ mmMode = "live" /\ cfgMode = "live"
  /\ st = NewTradingState /\ stGen = 0
  /\ pc = "idle" /\ tk = NoTick
  /\ ledger \in InitLedgers
  /\ paperOpenTrade = ledgerGetOpenTrade(ledger)
  /\ venue = InitVenue /\ liveCache = InitLive
  /\ obs = InitObs
  /\ exIn = NONE /\ exOut = NONE

\* The active executor holds a position
HasOpen ==
  IF executor = "live" THEN DOMAIN venue.inv # {} ELSE OpenIds(ledger) # {}

\* The recommendation of the snapshot is read by the entry gate alone, so it
\* is drawn there; entries are signalled only while the trade budget lasts.
EntryOks ==
  IF Cardinality(DOMAIN ledger) < MaxTrades /\ venue.buys < MaxTrades
    THEN BOOLEAN ELSE {FALSE}

\* Mutant of TradingDisabledReturn: the tick goes on with trading disabled.
TradingDisabledReturn_Never(enabled) == FALSE

\* if (!this.tradingEnabled) { ...; return; }
TradingDisabledReturn(enabled) == ~enabled

\* Executor calls may throw (or reject) when the run admits faults
MayFail == IF exIn = Some("faults") THEN BOOLEAN ELSE {FALSE}

\* Mutant of Caught: the closePosition call is not wrapped in try/catch.
Caught_NotClose(op) == op # "close"

\* Mutant of Caught: markPositions is called outside the try/catch.
Caught_NotMark(op) == op # "mark"

\* Each of the executor calls of processSignals sits in its own try/catch
Caught(op) == op \in {"fetch", "mark", "close", "refetch", "balance", "open"}

\* An exception nobody catches rejects the promise of processSignals
Escapes(op) ==
  /\ pc' = "crashed"
  /\ tk' = [tk EXCEPT !.fault = op]
  /\ UNCHANGED <<now, today, market, engineVars, execVars, obs, pureVars>>

\* An observation is written where the observations have a place for it
Noted(o, field, v) == IF field \in DOMAIN o THEN [o EXCEPT ![field] = v] ELSE o

\* Whether the mode was switched and trading not started since
Unstarted(o) == "unstarted" \in DOMAIN o /\ o.unstarted

\* The observations include the peak PnL of every position that is open
Tracking == "peak" \in DOMAIN obs

\* The quotes a snapshot can carry; where the peak is watched they lie at and
\* above the pinned entry price, so that a position can gain
Quotes == IF Tracking THEN {50, 75} ELSE Prices

TickStart ==
  /\ pc = "idle"
  /\ now - tk.lastEndMs >= PollIntervalMs
  /\ \E px \in Quotes :
       LET s1 == resetDayIfNeeded(st, today)
       IN IF TradingDisabledReturn(tradingEnabled)
            THEN /\ st' = s1
                 /\ pc' = "idle"
                 /\ tk' = EndTick(now)
                 /\ obs' = [obs EXCEPT !.sinceSwitch = FALSE, !.lastExit = NONE,
                                       !.skippedOpen = HasOpen]
            ELSE /\ st' = s1
                 /\ pc' = "fetch1"
                 /\ tk' = [tk EXCEPT !.signals = Snapshot(market, px),
                                         !.callee = executor, !.gen = stGen,
                                         !.enabledAtStart = tradingEnabled]
                 /\ obs' = [obs EXCEPT !.sinceSwitch = FALSE, !.lastExit = NONE,
                                       !.skippedOpen = FALSE]
  /\ UNCHANGED <<now, today, market, tradingEnabled, executor, mmMode, cfgMode, stGen,
                 execVars, pureVars>>

\* executor.getOpenPositions(signals) as the callee answers it
OpenPositionsOf(callee, c, l, sig) ==
  IF callee = "live" THEN LivePositions(c, sig) ELSE PaperGetOpenPositions(l)

\* catch (e) { console.error(...); return; }
FetchFailed ==
  /\ pc = "fetch1"
  /\ TRUE \in MayFail
  /\ IF Caught("fetch")
       THEN /\ pc' = "idle"
            /\ tk' = EndTick(now)
            /\ UNCHANGED <<now, today, market, engineVars, execVars, obs, pureVars>>
       ELSE Escapes("fetch")

FetchReturn ==
  /\ pc = "fetch1"
  /\ LET c1 == IF tk.callee = "live" THEN LiveRefreshed(liveCache, venue, now)
                                     ELSE liveCache
         positions == OpenPositionsOf(tk.callee, c1, ledger, tk.signals)
     IN /\ liveCache' = IF tk.callee = "live"
                          THEN [c1 EXCEPT !.hadPositionLastLoop = Len(positions) > 0]
                          ELSE liveCache
        /\ paperOpenTrade' = IF tk.callee = "paper" THEN ledgerGetOpenTrade(ledger)
                                                    ELSE paperOpenTrade
        /\ IF Len(positions) > 0
             THEN /\ pc' = "mark"
                  /\ st' = st
                  /\ tk' = [tk EXCEPT !.positions = positions, !.first = Len(positions),
                                      !.callee = executor]
             ELSE /\ pc' = "refetch"
                  /\ st' = [st EXCEPT !.hasOpenPosition = FALSE]
                  /\ tk' = [tk EXCEPT !.callee = executor]
  /\ UNCHANGED <<now, today, market, tradingEnabled, executor, mmMode, cfgMode, stGen,
                 ledger, venue, obs, pureVars>>


\* executor.markPositions(positions, signals) as the callee answers it
MarkOf(callee, p, sig) == IF callee = "live" THEN LiveMark(p, sig) ELSE PaperMark(p, sig)

\* The MFE/MAE loop over the marked positions
RECURSIVE TrackAll(_, _, _)
TrackAll(s, positions, i) ==
  IF i > Len(positions) THEN s
  ELSE LET p == positions[i]
       IN IF isNum(p.unrealizedPnl)
            THEN TrackAll(trackMAE(trackMFE(s, PosId(p), Val(p.unrealizedPnl)),
                                   PosId(p), Val(p.unrealizedPnl)),
                          positions, i + 1)
            ELSE TrackAll(s, positions, i + 1)

Injected(s, p) ==
  IF isNum(p.unrealizedPnl)
    THEN [p EXCEPT !.maxUnrealizedPnl = getMaxUnrealized(s, PosId(p)),
                   !.minUnrealizedPnl = getMinUnrealized(s, PosId(p))]
    ELSE p

\* The highest unrealized PnL markPositions has reported for each position
\* that is still open at the venue or in the ledger
PeakOf(m, marked) ==
  LET seen == {i \in 1..Len(marked) : isNum(marked[i].unrealizedPnl)}
      ids == {PosId(marked[i]) : i \in seen}
      kept == DOMAIN m \cap (DOMAIN venue.inv \cup OpenIds(ledger))
      pnlOf(id) == Val(marked[CHOOSE i \in seen : PosId(marked[i]) = id].unrealizedPnl)
  IN [id \in kept \cup ids |->
        IF id \in ids
          THEN (IF id \in kept THEN Max(m[id], pnlOf(id)) ELSE pnlOf(id))
          ELSE m[id]]

\* The peak is observed where the observations have a place for it
Observed(o, marked) ==
  IF "peak" \in DOMAIN o THEN [o EXCEPT !.peak = PeakOf(@, marked)] ELSE o

\* catch (e) { ... } : the tick goes on with the positions as fetched
MarkFailed ==
  /\ pc = "mark"
  /\ TRUE \in MayFail
  /\ IF Caught("mark")
       THEN /\ st' = [TrackAll(st, tk.positions, 1) EXCEPT !.hasOpenPosition = TRUE]
            /\ tk' = [tk EXCEPT !.positions = [i \in 1..Len(tk.positions) |->
                                                Injected(st, tk.positions[i])],
                                !.idx = 1, !.fault = "mark"]
            /\ pc' = "exit"
            /\ UNCHANGED <<now, today, market, tradingEnabled, executor, mmMode, cfgMode,
                           stGen, execVars, obs, pureVars>>
       ELSE Escapes("mark")

MarkReturn ==
  /\ pc = "mark"
  /\ LET marked == [i \in 1..Len(tk.positions) |->
                      MarkOf(tk.callee, tk.positions[i], tk.signals)]
         s1 == TrackAll(st, marked, 1)
     IN /\ st' = [s1 EXCEPT !.hasOpenPosition = TRUE]
        /\ tk' = [tk EXCEPT !.positions = [i \in 1..Len(marked) |-> Injected(s1, marked[i])],
                            !.idx = 1]
        /\ pc' = "exit"
        /\ obs' = Observed(obs, marked)
  /\ UNCHANGED <<now, today, market, tradingEnabled, executor, mmMode, cfgMode, stGen,
                 execVars, pureVars>>

\* Mutant of PcAfterPosition: the exit loop gives up once trading is stopped.
PcAfterPosition_AbortsWhenStopped(t) ==
  IF ~tradingEnabled THEN "idle"
  ELSE IF t.idx < Len(t.positions) THEN "exit" ELSE "refetch"

\* The exit loop moves to the next position, or on to the re-fetch
PcAfterPosition(t) == IF t.idx < Len(t.positions) THEN "exit" ELSE "refetch"

TkAfterPosition(t, exec) ==
  IF t.idx < Len(t.positions)
    THEN [t EXCEPT !.idx = @ + 1, !.done = @ + 1, !.reason = NoDecision]
    ELSE [t EXCEPT !.idx = @ + 1, !.done = @ + 1, !.reason = NoDecision,
                   !.callee = exec]

ExitStep ==
  /\ pc = "exit"
  /\ LET p == tk.positions[tk.idx]
         r == evaluateExits(p, EvalSignals(tk.signals), Cfg(cfgMode),
                            getGraceState(st, PosId(p)), now)
     IN /\ st' = IF r.graceAction = "START_GRACE" THEN startGrace(st, PosId(p), now)
                 ELSE IF r.graceAction = "CLEAR_GRACE" THEN clearGrace(st, PosId(p))
                 ELSE st
        /\ obs' = LET o1 == IF r.graceAction = "START_GRACE"
                                THEN [obs EXCEPT !.graceStarts =
                                        MapSet(@, PosId(p), MapGet(@, PosId(p), 0) + 1)]
                                ELSE obs
                   IN IF r.decision # NoDecision
                        THEN Noted(o1, "callUnstarted", Unstarted(obs))
                        ELSE o1
        /\ IF r.decision # NoDecision
             THEN /\ pc' = "closing"
                  /\ tk' = [tk EXCEPT !.reason = r.decision, !.callee = executor,
                                      !.closeAsked = Append(@, PosId(p))]
             ELSE /\ pc' = PcAfterPosition(tk)
                  /\ tk' = TkAfterPosition(tk, executor)
  /\ UNCHANGED <<now, today, market, tradingEnabled, executor, mmMode, cfgMode, stGen,
                 execVars, pureVars>>

\* if (closeResult.closed) { recordExit(...); clearPosition(posId); }
AfterClose(s, closed, pnl, p, reason, config, nowMs) ==
  IF closed
    THEN clearPosition(recordExit(s, pnl, p.marketSlug, reason = "Max Loss",
                                  config.skipMarketAfterMaxLoss, nowMs),
                       PosId(p))
    ELSE s

\* catch (e) { console.error(...) } : the loop goes to the next position
CloseFailed ==
  /\ pc = "closing"
  /\ TRUE \in MayFail
  /\ IF Caught("close")
       THEN /\ pc' = PcAfterPosition(tk)
            /\ tk' = [TkAfterPosition(tk, executor) EXCEPT !.fault = "close"]
            /\ UNCHANGED <<now, today, market, engineVars, execVars, obs, pureVars>>
       ELSE Escapes("close")

\* The time of the last exit recordExit has booked as a loss and of the last
\* it has booked as a non-loss, with the TradingState that booked it; kept
\* where the observations have a place for it
Recorded(o, closed, pnl, nowMs, gen) ==
  IF closed /\ "exits" \in DOMAIN o
    THEN IF pnl < 0
           THEN [o EXCEPT !.exits.loss = Some([at |-> nowMs, gen |-> gen])]
           ELSE [o EXCEPT !.exits.win = Some([at |-> nowMs, gen |-> gen])]
    ELSE o

\* The close succeeded on a "Max Loss" decision while the feature is enabled
MaxLossClose(closed, reason, config) ==
  closed /\ reason = "Max Loss" /\ config.skipMarketAfterMaxLoss

CloseReturn ==
  /\ pc = "closing"
  /\ LET p == tk.positions[tk.idx]
     IN \E outcome \in Outcomes :
          LET lr == LiveClose(liveCache, venue, p, tk.signals, now, outcome)
              pr == PaperClose(ledger, paperOpenTrade, tk.signals)
              res == IF tk.callee = "live"
                       THEN [closed |-> lr.closed, pnl |-> lr.pnl, real |-> lr.real]
                       ELSE [closed |-> pr.closed, pnl |-> pr.pnl, real |-> pr.real]
          IN /\ IF tk.callee = "live"
                  THEN /\ liveCache' = lr.cache /\ venue' = lr.venue
                       /\ UNCHANGED <<ledger, paperOpenTrade>>
                  ELSE /\ ledger' = pr.ledger /\ paperOpenTrade' = pr.openTrade
                       /\ UNCHANGED <<liveCache, venue>>
             /\ st' = AfterClose(st, res.closed, res.pnl, p, tk.reason, Cfg(cfgMode), now)
             /\ obs' = LET o1 == IF MaxLossClose(res.closed, tk.reason, Cfg(cfgMode))
                                      THEN [obs EXCEPT !.maxLoss =
                                              Some([slug |-> Val(p.marketSlug),
                                                    gen |-> stGen])]
                                      ELSE obs
                           o4 == Recorded(o1, res.closed, res.pnl, now, stGen)
                           o3 == IF res.closed /\ "recorded" \in DOMAIN o4
                                   THEN [o4 EXCEPT !.recorded =
                                           MapSet(@, PosId(p), MapGet(@, PosId(p), 0) + 1)]
                                   ELSE o4
                           o2 == IF tk.callee = "live" /\ DOMAIN lr.venue.inv = {}
                                      /\ DOMAIN venue.inv # {}
                                   THEN Noted(o3, "openEntry", FALSE)
                                   ELSE o3
                       IN IF res.closed /\ res.real # NONE
                            THEN [o2 EXCEPT
                                    !.lastExit = Some([mode |-> tk.callee,
                                                       real |-> Val(res.real),
                                                       recorded |-> res.pnl]),
                                    !.liveDayRealized =
                                      IF tk.callee = "live" THEN @ + Val(res.real) ELSE @]
                            ELSE o2
  /\ pc' = PcAfterPosition(tk)
  /\ tk' = TkAfterPosition(tk, executor)
  /\ UNCHANGED <<now, today, market, tradingEnabled, executor, mmMode, cfgMode, stGen,
                 pureVars>>

\* Mutant of RefetchBlocksEntry: the re-check never stops the tick.
RefetchBlocksEntry_Never(positions) == FALSE

\* if (positions.length > 0) { ...; return; }
RefetchBlocksEntry(positions) == Len(positions) > 0

\* catch { } : positions keeps the list of the first fetch
RefetchFailed ==
  /\ pc = "refetch"
  /\ TRUE \in MayFail
  /\ IF Caught("refetch")
       THEN /\ \E entryOk \in EntryOks :
                 LET gate == computeEntryBlockers(tk.signals, entryOk, Cfg(cfgMode),
                                                  [st EXCEPT !.hasOpenPosition = FALSE], now)
                 IN IF RefetchBlocksEntry(tk.positions)
                      THEN /\ st' = [st EXCEPT !.hasOpenPosition = TRUE]
                           /\ pc' = "idle"
                           /\ tk' = EndTick(now)
                      ELSE /\ st' = gate.state
                           /\ IF gate.blockers # {}
                                THEN /\ pc' = "idle"
                                     /\ tk' = EndTick(now)
                                ELSE /\ pc' = "balance"
                                     /\ tk' = [tk EXCEPT !.refetched = Some(Len(tk.positions)),
                                                         !.gateCfg = cfgMode,
                                                         !.callee = executor,
                                                         !.fault = "refetch"]
            /\ UNCHANGED <<now, today, market, tradingEnabled, executor, mmMode, cfgMode,
                           stGen, execVars, obs, pureVars>>
       ELSE Escapes("refetch")

RefetchReturn ==
  /\ pc = "refetch"
  /\ \E entryOk \in EntryOks :
     LET c1 == IF tk.callee = "live" THEN LiveRefreshed(liveCache, venue, now)
                                     ELSE liveCache
         positions == OpenPositionsOf(tk.callee, c1, ledger, tk.signals)
         gate == computeEntryBlockers(tk.signals, entryOk, Cfg(cfgMode),
                                      [st EXCEPT !.hasOpenPosition = FALSE], now)
     IN /\ liveCache' = IF tk.callee = "live"
                          THEN [c1 EXCEPT !.hadPositionLastLoop = Len(positions) > 0]
                          ELSE liveCache
        /\ paperOpenTrade' = IF tk.callee = "paper" THEN ledgerGetOpenTrade(ledger)
                                                    ELSE paperOpenTrade
        /\ IF RefetchBlocksEntry(positions)
             THEN /\ st' = [st EXCEPT !.hasOpenPosition = TRUE]
                  /\ pc' = "idle"
                  /\ tk' = EndTick(now)
             ELSE /\ st' = gate.state
                  /\ IF gate.blockers # {}
                       THEN /\ pc' = "idle"
                            /\ tk' = EndTick(now)
                       ELSE /\ pc' = "balance"
                            /\ tk' = [tk EXCEPT !.refetched = Some(Len(positions)),
                                                !.gateCfg = cfgMode,
                                                !.callee = executor]
  /\ UNCHANGED <<now, today, market, tradingEnabled, executor, mmMode, cfgMode, stGen,
                 ledger, venue, obs, pureVars>>

\* executor.getBalance() as the callee answers it
BalanceOf(callee, l, v) ==
  IF callee = "live" THEN v.collateral ELSE PaperGetBalance(l, PaperCfg)

\* catch (e) { console.error(...); return; }
BalanceFailed ==
  /\ pc = "balance"
  /\ TRUE \in MayFail
  /\ IF Caught("balance")
       THEN /\ pc' = "idle"
            /\ tk' = EndTick(now)
            /\ UNCHANGED <<now, today, market, engineVars, execVars, obs, pureVars>>
       ELSE Escapes("balance")

BalanceReturn ==
  /\ pc = "balance"
  /\ LET sizeUsd == computeTradeSize(BalanceOf(tk.callee, ledger, venue), Cfg(cfgMode))
     IN IF sizeUsd <= 0 \/ tk.signals.px <= 0
          THEN /\ pc' = "idle"
               /\ tk' = EndTick(now)
               /\ obs' = obs
          ELSE /\ pc' = "opening"
               /\ tk' = [tk EXCEPT !.sizeUsd = sizeUsd, !.callee = executor]
               /\ obs' = Noted(obs, "callUnstarted", Unstarted(obs))
  /\ UNCHANGED <<now, today, market, engineVars, execVars, pureVars>>

\* catch (e) { console.error(...) } : processSignals returns
OpenFailed ==
  /\ pc = "opening"
  /\ TRUE \in MayFail
  /\ IF Caught("open")
       THEN /\ pc' = "idle"
            /\ tk' = EndTick(now)
            /\ UNCHANGED <<now, today, market, engineVars, execVars, obs, pureVars>>
       ELSE Escapes("open")

\* The id of the position an openPosition call in flight creates: the token
\* of the signalled side at the venue, a new trade id in the paper ledger.
OpeningId(callee, slug, l) ==
  IF callee = "live" THEN <<"token", slug>> ELSE NewTradeId(l)

\* A position opened under an id starts with no recorded exit
NewPosition(o, id) ==
  IF "recorded" \in DOMAIN o THEN [o EXCEPT !.recorded = MapDelete(@, id)] ELSE o

OpenReturn ==
  /\ pc = "opening"
  /\ \E outcome \in Outcomes :
       IF tk.callee = "live"
         THEN LET r == LiveOpen(venue, market.slug, tk.signals.px, now, outcome)
              IN /\ venue' = r.venue
                 /\ obs' = IF r.filled
                              THEN NewPosition(Noted(obs, "openEntry", TRUE),
                                               OpeningId("live", market.slug, ledger))
                              ELSE obs
                 /\ UNCHANGED <<ledger, paperOpenTrade>>
         ELSE LET r == PaperOpen(ledger, tk.signals.slug, tk.sizeUsd, tk.signals.px, now)
              IN /\ ledger' = r.ledger
                 /\ paperOpenTrade' = IF r.filled THEN r.openTrade ELSE paperOpenTrade
                 /\ venue' = venue
                 /\ obs' = IF r.filled
                              THEN NewPosition(obs, OpeningId("paper", tk.signals.slug, ledger))
                              ELSE obs
  /\ pc' = "idle"
  /\ tk' = EndTick(now)
  /\ UNCHANGED <<now, today, market, engineVars, liveCache, pureVars>>

\* ------------------------------------------------------------------------
\* Control requests of the API server.  A request handler runs while the
\* engine is between ticks or a tick waits for I/O of its executor call; the
\* paper executor does I/O only to simulate a fill and to write the ledger.
\* ------------------------------------------------------------------------
Suspended ==
  \/ pc = "idle"
  \/ pc \in {"fetch1", "refetch"} /\ tk.callee = "live" /\ LiveRefreshDue(liveCache, now)
  \/ pc \in {"mark", "balance"} /\ tk.callee = "live"
  \/ pc = "closing" /\ tk.callee = "live"
       /\ ~LiveExitCooldown(liveCache, CloseTid(tk.positions[tk.idx]), now)
  \/ pc = "closing" /\ tk.callee = "paper" /\ paperOpenTrade # NONE
  \/ pc = "opening"

\* A start or stop request that finds the flag as it would set it changes
\* nothing; only the requests that change it are steps.
StartTrading ==
  /\ Suspended /\ ~tradingEnabled
  /\ tradingEnabled' = TRUE
  /\ obs' = Noted(obs, "unstarted", FALSE)
  /\ UNCHANGED <<now, today, market, executor, mmMode, cfgMode, st, stGen, pc, tk,
                 execVars, pureVars>>

StopTrading ==
  /\ Suspended /\ tradingEnabled
  /\ tradingEnabled' = FALSE
  /\ UNCHANGED <<now, today, market, executor, mmMode, cfgMode, st, stGen, pc, tk,
                 execVars, obs, pureVars>>

\* A resting order of the model is never matched, so cancelAll changes nothing
Kill ==
  /\ Suspended /\ tradingEnabled
  /\ tradingEnabled' = FALSE
  /\ UNCHANGED <<now, today, market, executor, mmMode, cfgMode, st, stGen, pc, tk,
                 execVars, obs, pureVars>>

\* engine.config = mode === 'live' ? { ...paperTrading, ...liveTrading }
\*                                 : { ...paperTrading }
\* CONFIG is read from the environment once, so the cooldowns set there stay
ConfigOf(c, mode) ==
  IF c \in {"cool", "coollive"}
    THEN (IF mode = "live" THEN "coollive" ELSE "cool")
    ELSE mode

\* What the mode manager was constructed with: whether a live executor was
\* handed to it and CONFIG.liveTrading.envGate.  A run that does not say so
\* has the live executor and no gate.
ModeEnv ==
  IF Len(exIn) = 3
    THEN [liveExecutor |-> exIn[2], envGate |-> exIn[3]]
    ELSE [liveExecutor |-> TRUE, envGate |-> NONE]

\* this._mode = initialMode === 'live' && liveExecutor ? 'live' : 'paper'
NewModeManager(env, initialMode) ==
  IF initialMode = "live" /\ env.liveExecutor THEN "live" ELSE "paper"

\* ModeManager.getActiveExecutor
getActiveExecutor(m, env) ==
  IF m = "live" /\ env.liveExecutor THEN "live" ELSE "paper"

\* Mutant of switchMode: the mode is assigned before the checks.
switchMode_AssignsFirst(m, env, mode) ==
  IF mode = "live"
    THEN IF ~env.liveExecutor THEN [threw |-> TRUE, mode |-> "live"]
         ELSE IF env.envGate # NONE /\ env.envGate # Some("production")
           THEN [threw |-> TRUE, mode |-> "live"]
         ELSE [threw |-> FALSE, mode |-> "live"]
    ELSE [threw |-> FALSE, mode |-> "paper"]

\* ModeManager.switchMode: the mode after the call and whether it threw
switchMode(m, env, mode) ==
  IF mode = "live"
    THEN IF ~env.liveExecutor THEN [threw |-> TRUE, mode |-> m]
         ELSE IF env.envGate # NONE /\ env.envGate # Some("production")
           THEN [threw |-> TRUE, mode |-> m]
         ELSE [threw |-> FALSE, mode |-> "live"]
    ELSE [threw |-> FALSE, mode |-> "paper"]

\* POST /api/mode: 400 when switchMode throws, before the engine is touched
SwitchMode(mode) ==
  /\ Suspended
  /\ LET r == switchMode(mmMode, ModeEnv, mode)
     IN IF r.threw
          THEN /\ mmMode' = r.mode
               /\ obs' = Noted(obs, "response", 400)
               /\ UNCHANGED <<executor, cfgMode, tradingEnabled, st, stGen>>
          ELSE /\ stGen < MaxSwitches
               /\ mmMode' = r.mode
               /\ executor' = getActiveExecutor(r.mode, ModeEnv)
               /\ cfgMode' = ConfigOf(cfgMode, mode)
               /\ tradingEnabled' = FALSE
               /\ st' = NewTradingState
               /\ stGen' = stGen + 1
               /\ obs' = Noted(Noted([obs EXCEPT !.sinceSwitch = TRUE], "unstarted", TRUE),
                               "response", 200)
  /\ UNCHANGED <<now, today, market, pc, tk, execVars, pureVars>>

\* ------------------------------------------------------------------------
\* Environment, between ticks
\* ------------------------------------------------------------------------
\* The clock moves by StepMs, and by FineStepMs where that is asked for
ClockStep == IF "fine" \in DOMAIN obs THEN FineStepMs ELSE StepMs

Advance ==
  /\ pc = "idle"
  /\ now < StartMs + MaxTime * StepMs
  /\ now' = now + ClockStep
  /\ UNCHANGED <<today, market, engineVars, pc, tk, execVars, obs, pureVars>>

\* Midnight and the market's progress fall between two ticks; they are taken
\* before the tick of the clock value, an order that reaches the same states
\* at every tick start as any other.
BeforeTick == tk.lastEndMs < now

NextDay ==
  /\ pc = "idle" /\ BeforeTick
  /\ today < MaxDay
  /\ today' = today + 1
  /\ obs' = [obs EXCEPT !.liveDayRealized = 0]
  /\ UNCHANGED <<now, market, engineVars, pc, tk, execVars, pureVars>>

MarketProgress ==
  /\ pc = "idle" /\ BeforeTick
  /\ IF market.closing
       THEN /\ market.slug < MaxMarket
            /\ market' = [slug |-> market.slug + 1, closing |-> FALSE]
       ELSE market' = [market EXCEPT !.closing = TRUE]
  /\ UNCHANGED <<now, today, engineVars, pc, tk, execVars, obs, pureVars>>

Next ==
  \/ TickStart \/ FetchReturn \/ MarkReturn \/ ExitStep \/ CloseReturn
  \/ RefetchReturn \/ BalanceReturn \/ OpenReturn
  \/ StartTrading \/ StopTrading \/ Kill
  \/ \E mode \in {"paper", "live"} : SwitchMode(mode)
  \/ Advance \/ NextDay \/ MarketProgress

Spec == Init /\ [][Next]_vars

\* The engine in paper mode, constructed with the grace window disabled, one
\* clock step into the session
SkipInit ==
  /\ now = StartMs + StepMs /\ today = 0 /\ market = InitMarket
  /\ tradingEnabled = FALSE
  /\ executor = "paper" /\ mmMode = "paper" /\ cfgMode = "nograce"
  /\ st = NewTradingState /\ stGen = 0
  /\ pc = "idle" /\ tk = NoTick
  /\ ledger \in InitLedgers
  /\ paperOpenTrade = ledgerGetOpenTrade(ledger)
  /\ venue = InitVenue /\ liveCache = InitLive
  /\ obs = InitObs
  /\ exIn = NONE /\ exOut = NONE

SpecSkip == SkipInit /\ [][Next]_vars

\* The engine with executor calls that may fail
FaultInit ==
  /\ now = StartMs + StepMs /\ today = 0 /\ market = InitMarket
  /\ tradingEnabled = FALSE
  /\ executor = "live" /\ mmMode = "live" /\ cfgMode = "live"
  /\ st = NewTradingState /\ stGen = 0
  /\ pc = "idle" /\ tk = NoTick
  /\ ledger \in InitLedgers
  /\ paperOpenTrade = ledgerGetOpenTrade(ledger)
  /\ venue = InitVenue /\ liveCache = InitLive
  /\ obs = InitObs
  /\ exIn = Some("faults") /\ exOut = NONE

FaultNext ==
  \/ Next
  \/ FetchFailed \/ MarkFailed \/ CloseFailed
  \/ RefetchFailed \/ BalanceFailed \/ OpenFailed

SpecFault == FaultInit /\ [][FaultNext]_vars

\* The engine in paper mode with quotes above the entry price, one clock step
\* into the session; the peak PnL of each open position is observed
TrailInit ==
  /\ now = StartMs + StepMs /\ today = 0 /\ market = InitMarket
  /\ tradingEnabled = FALSE
  /\ executor = "paper" /\ mmMode = "paper" /\ cfgMode = "paper"
  /\ st = NewTradingState /\ stGen = 0
  /\ pc = "idle" /\ tk = NoTick
  /\ ledger \in InitLedgers
  /\ paperOpenTrade = ledgerGetOpenTrade(ledger)
  /\ venue = InitVenue /\ liveCache = InitLive
  /\ obs = [graceStarts |-> EmptyMap, skippedOpen |-> FALSE, sinceSwitch |-> FALSE,
            lastExit |-> NONE, liveDayRealized |-> 0, maxLoss |-> NONE,
            peak |-> EmptyMap]
  /\ exIn = NONE /\ exOut = NONE

SpecTrail == TrailInit /\ [][Next]_vars

\* The engine of Spec; it is observed whether trading was started since the
\* last mode switch, now and when the close or open call in flight was made
SwitchInit ==
  /\ now = StartMs /\ today = 0 /\ market = InitMarket
  /\ tradingEnabled = FALSE
  /\ executor = "live" /\ mmMode = "live" /\ cfgMode = "live"
  /\ st = NewTradingState /\ stGen = 0
  /\ pc = "idle" /\ tk = NoTick
  /\ ledger \in InitLedgers
  /\ paperOpenTrade = ledgerGetOpenTrade(ledger)
  /\ venue = InitVenue /\ liveCache = InitLive
  /\ obs = [graceStarts |-> EmptyMap, skippedOpen |-> FALSE, sinceSwitch |-> FALSE,
            lastExit |-> NONE, liveDayRealized |-> 0, maxLoss |-> NONE,
            unstarted |-> FALSE, callUnstarted |-> FALSE]
  /\ exIn = NONE /\ exOut = NONE

SpecSwitch == SwitchInit /\ [][Next]_vars

\* The engine of Spec on the finer clock; it is observed whether a BUY was
\* accepted by the venue whose position has not been sold since
EntriesInit ==
  /\ now = StartMs /\ today = 0 /\ market = InitMarket
  /\ tradingEnabled = FALSE
  /\ executor = "live" /\ mmMode = "live" /\ cfgMode = "live"
  /\ st = NewTradingState /\ stGen = 0
  /\ pc = "idle" /\ tk = NoTick
  /\ ledger = EmptyMap /\ paperOpenTrade = NONE
  /\ venue = InitVenue /\ liveCache = InitLive
  /\ obs = [graceStarts |-> EmptyMap, skippedOpen |-> FALSE, sinceSwitch |-> FALSE,
            lastExit |-> NONE, liveDayRealized |-> 0, maxLoss |-> NONE,
            fine |-> TRUE, openEntry |-> FALSE]
  /\ exIn = NONE /\ exOut = NONE

SpecEntries == EntriesInit /\ [][Next]_vars

\* The engine of Spec; it is observed how many exits were recorded for each
\* position since it was opened
ClosesInit ==
  /\ now = StartMs /\ today = 0 /\ market = InitMarket
  /\ tradingEnabled = FALSE
  /\ executor = "live" /\ mmMode = "live" /\ cfgMode = "live"
  /\ st = NewTradingState /\ stGen = 0
  /\ pc = "idle" /\ tk = NoTick
  /\ ledger \in InitLedgers
  /\ paperOpenTrade = ledgerGetOpenTrade(ledger)
  /\ venue = InitVenue /\ liveCache = InitLive
  /\ obs = [graceStarts |-> EmptyMap, skippedOpen |-> FALSE, sinceSwitch |-> FALSE,
            lastExit |-> NONE, liveDayRealized |-> 0, maxLoss |-> NONE,
            recorded |-> EmptyMap]
  /\ exIn = NONE /\ exOut = NONE

SpecCloses == ClosesInit /\ [][Next]_vars

\* The engine in paper mode with cooldowns of two clock steps; the recorded
\* exits are observed
CoolInit ==
  /\ now = StartMs /\ today = 0 /\ market = InitMarket
  /\ tradingEnabled = FALSE
  /\ executor = "paper" /\ mmMode = "paper" /\ cfgMode = "cool"
  /\ st = NewTradingState /\ stGen = 0
  /\ pc = "idle" /\ tk = NoTick
  /\ ledger \in InitLedgers
  /\ paperOpenTrade = ledgerGetOpenTrade(ledger)
  /\ venue = InitVenue /\ liveCache = InitLive
  /\ obs = [graceStarts |-> EmptyMap, skippedOpen |-> FALSE, sinceSwitch |-> FALSE,
            lastExit |-> NONE, liveDayRealized |-> 0, maxLoss |-> NONE,
            exits |-> [loss |-> NONE, win |-> NONE]]
  /\ exIn = NONE /\ exOut = NONE

SpecCool == CoolInit /\ [][Next]_vars

\* ------------------------------------------------------------------------
\* evaluateExits on its own: the arguments are drawn from bounded sets
\* ------------------------------------------------------------------------
ExNow == StartMs + 4 * StepMs

ExPnls == {NONE, Some(-2000), Some(-1200), Some(-500), Some(0), Some(500), Some(2500)}
ExMaxU == {NONE, Some(0), Some(2500)}
ExTimeLeft == {NONE, Some(30000), Some(70000), Some(120000)}
ExGrace == {NoGrace,
            [breachAtMs |-> NONE, used |-> TRUE],
            [breachAtMs |-> Some(ExNow - 1000), used |-> TRUE],
            [breachAtMs |-> Some(ExNow - StepMs), used |-> TRUE]}
ExConfigs ==
  {[PaperCfg EXCEPT !.maxLossGraceEnabled = g, !.maxLossGraceRequireModelSupport = m,
                    !.trailingTakeProfitEnabled = t, !.stopLossEnabled = sl,
                    !.maxLossRecoverUsd = r, !.takeProfitPrice = tp,
                    !.takeProfitImmediate = ti]
     : g \in BOOLEAN, m \in BOOLEAN, t \in BOOLEAN, sl \in BOOLEAN,
       r \in {Some(1000), Some(1800)}, tp \in {NONE, Some(90)}, ti \in BOOLEAN}

ExPositions ==
  {[id |-> <<"trade", 1>>, marketSlug |-> Some(1), side |-> sd,
    contractSize |-> Some(5000), shares |-> 100, entryPrice |-> 50,
    unrealizedPnl |-> p, mark |-> mk, maxUnrealizedPnl |-> mu,
    entryTime |-> Some(ExNow - a), lastTradeTime |-> NONE, tokenID |-> NONE]
     : sd \in {"UP", "DOWN"}, p \in ExPnls, mu \in ExMaxU, a \in {StepMs - 1000, 2 * StepMs},
       mk \in {Some(50), Some(95)}}

ExSignals ==
  {[slug |-> Some(sl), endDate |-> NONE, timeLeftMs |-> tl,
    modelUp |-> Some(up), modelDown |-> Some(100 - up), liquidityNum |-> NONE]
     : sl \in {1, 2}, tl \in ExTimeLeft, up \in {40, 60}}

ExInit ==
  /\ now = ExNow /\ today = 0 /\ market = InitMarket
  /\ tradingEnabled = FALSE /\ executor = "paper" /\ mmMode = "paper" /\ cfgMode = "paper"
  /\ st = NewTradingState /\ stGen = 0
  /\ pc = "idle" /\ tk = NoTick
  /\ ledger = EmptyMap /\ paperOpenTrade = NONE
  /\ venue = EmptyMap /\ liveCache = EmptyMap
  /\ obs = NoObs
  /\ exIn \in [position : ExPositions, signals : ExSignals, config : ExConfigs,
               graceState : ExGrace]
  /\ exOut = NONE

ExEvaluate ==
  /\ exOut = NONE
  /\ exOut' = Some(evaluateExits(exIn.position, exIn.signals, exIn.config,
                                 exIn.graceState, now))
  /\ UNCHANGED <<now, today, market, engineVars, pc, tk, execVars, obs, exIn>>

ExNext == ExEvaluate

SpecExit == ExInit /\ [][ExNext]_vars

\* The max-loss breach of the call is covered by a permitted grace window:
\* START_GRACE is signalled by this call, or the timer runs and has neither
\* expired nor recovered.
ExBreached ==
  /\ isNum(exIn.position.unrealizedPnl)
  /\ Val(exIn.position.unrealizedPnl) <= -Val(exIn.config.maxLossUsdPerTrade)

ExCovered ==
  /\ exOut # NONE
  /\ ExBreached
  /\ \/ Val(exOut).graceAction = "START_GRACE"
     \/ /\ breachSet(exIn.graceState)
        /\ okForGrace(exIn.position, exIn.signals, exIn.config, now)
        /\ now - Val(exIn.graceState.breachAtMs) < exIn.config.maxLossGraceSeconds * 1000
        /\ Val(exOut).graceAction # "CLEAR_GRACE"

CbPnls == {-100, 0, 100}
CbThreshold == 2
CbCooldownMs == PaperCfg.circuitBreakerCooldownMs

CbInit ==
  /\ now = StartMs /\ today = 0 /\ market = InitMarket
  /\ tradingEnabled = FALSE /\ executor = "paper" /\ mmMode = "paper" /\ cfgMode = "paper"
  /\ st = NewTradingState /\ stGen = 0
  /\ pc = "idle" /\ tk = NoTick
  /\ ledger = EmptyMap /\ paperOpenTrade = NONE
  /\ venue = EmptyMap /\ liveCache = EmptyMap
  /\ obs = [lastCheck |-> NONE, tripAt |-> NONE, exits |-> 0, lastExit |-> NONE]
  /\ exIn = NONE /\ exOut = NONE

CbRecordExit ==
  /\ obs.exits < MaxExits
  /\ \E pnl \in CbPnls :
       /\ st' = recordExit(st, pnl, Some(market.slug), FALSE, FALSE, now)
       /\ obs' = [obs EXCEPT !.exits = @ + 1, !.lastCheck = NONE,
                             !.lastExit = Some([pnl |-> pnl,
                                                lossesBefore |-> st.consecutiveLosses])]
  /\ UNCHANGED <<now, today, market, tradingEnabled, executor, mmMode, cfgMode, stGen,
                 pc, tk, execVars, pureVars>>

\* obs.tripAt is the time of the check that first reported the breaker tripped;
\* it is taken from the results of the calls, not from the state.  obs.lastExit
\* is the PnL of the exit just recorded and the counter before it.
CbCheck ==
  LET r == checkCircuitBreaker(st, CbThreshold, CbCooldownMs, now)
  IN /\ st' = r.state
     /\ obs' = [obs EXCEPT
                  !.lastCheck = Some([tripped |-> r.tripped, remaining |-> r.remaining,
                                      at |-> now, lossesBefore |-> st.consecutiveLosses,
                                      tripAtBefore |-> obs.tripAt]),
                  !.tripAt = IF r.tripped
                               THEN (IF obs.tripAt = NONE THEN Some(now) ELSE obs.tripAt)
                               ELSE NONE,
                  !.lastExit = NONE]
     /\ UNCHANGED <<now, today, market, tradingEnabled, executor, mmMode, cfgMode, stGen,
                    pc, tk, execVars, pureVars>>

CbAdvance ==
  /\ now < StartMs + MaxTime * StepMs
  /\ now' = now + StepMs
  /\ obs' = [obs EXCEPT !.lastCheck = NONE, !.lastExit = NONE]
  /\ UNCHANGED <<today, market, engineVars, pc, tk, execVars, pureVars>>

CbNext == CbRecordExit \/ CbCheck \/ CbAdvance

SpecCB == CbInit /\ [][CbNext]_vars

\* C9: a check made with the counter at the threshold, or within cooldownMs of
\* the check that tripped the breaker, reports tripped with remaining > 0; the
\* first check made once cooldownMs has elapsed since the trip reports
\* tripped = false and leaves the consecutive-loss counter at 0.
C9_CircuitBreaker ==
  obs.lastCheck # NONE =>
    LET c == Val(obs.lastCheck)
    IN IF c.tripAtBefore = NONE
         THEN (c.lossesBefore >= CbThreshold) => (c.tripped /\ c.remaining > 0)
         ELSE IF c.at - Val(c.tripAtBefore) < CbCooldownMs
           THEN c.tripped /\ c.remaining > 0
           ELSE ~c.tripped /\ c.remaining = 0 /\ st.consecutiveLosses = 0

\* A check after the cooldown of an earlier trip has reset the counter.
C9_Witness ==
  /\ obs.lastCheck # NONE
  /\ Val(obs.lastCheck).tripAtBefore # NONE
  /\ Val(obs.lastCheck).at - Val(Val(obs.lastCheck).tripAtBefore) >= CbCooldownMs
  /\ Val(obs.lastCheck).lossesBefore >= CbThreshold
  /\ ~Val(obs.lastCheck).tripped
  /\ st.consecutiveLosses = 0

\* ------------------------------------------------------------------------
\* Properties of the engine
\* ------------------------------------------------------------------------
\* C1: across ticks alone (no mode switch), START_GRACE is signalled at most
\* once for a position.
C1_GraceStartsOnce ==
  stGen = 0 => \A id \in DOMAIN obs.graceStarts : obs.graceStarts[id] <= 1

\* C3: when openPosition has been called, the exit evaluation and the close
\* attempt of every position of the tick's first fetch are over and the
\* re-fetch returned no position.
C3_EntryAfterExits ==
  pc = "opening" => (tk.done = tk.first /\ tk.refetched = Some(0))

\* A position was open at the first fetch, was closed, and the same tick has
\* called openPosition.
C3_Witness == pc = "opening" /\ tk.first > 0 /\ tk.done = tk.first

\* C4 as stated: with trading stopped, a tick still evaluates the exits of an
\* open position (no tick returns early while the active executor holds one).
C4_StoppedStillEvaluatesExits == ~obs.skippedOpen

\* C4 (amended): a tick that starts while trading is disabled returns at once,
\* evaluating neither entries nor exits: no step taken between ticks with
\* trading disabled starts an executor call or changes an executor.
C4_DisabledTickReturns ==
  [][(pc = "idle" /\ ~tradingEnabled)
       => (pc' = "idle" /\ UNCHANGED <<ledger, paperOpenTrade, venue, liveCache>>)]_vars

\* A tick has returned early while the active executor held an open position.
C4_Witness == obs.skippedOpen /\ pc = "idle" /\ ~tradingEnabled /\ HasOpen

\* The risk fields of a TradingState are those of a new one
FreshRisk(s) ==
  /\ s.lastLossAtMs = NONE /\ s.lastWinAtMs = NONE
  /\ s.skipMarketUntilNextSlug = NONE
  /\ s.consecutiveLosses = 0 /\ s.circuitBreakerTrippedAtMs = NONE
  /\ s.todayRealizedPnl = 0
  /\ s.mfeByPos = EmptyMap /\ s.maeByPos = EmptyMap /\ s.graceByPos = EmptyMap

\* C5: after a mode switch, the state the next tick starts on carries no
\* cooldown timestamp, loss counter, daily PnL, grace state or MFE/MAE.
C5_FreshAfterSwitch == (obs.sinceSwitch /\ pc = "idle") => FreshRisk(st)

\* C6: while a tick runs, engine.state is the TradingState object the tick
\* started on.
C6_StateNotReplacedMidTick == pc # "idle" => tk.gen = stGen

\* C7: a close that realized a loss is recorded as a loss, in both modes.
C7_LossRecordedAsLoss ==
  (obs.lastExit # NONE /\ Val(obs.lastExit).real < 0) => Val(obs.lastExit).recorded < 0

\* C8: no position is opened by a tick whose config has maxDailyLossUsd once
\* the PnL realized at the venue today is at or below -maxDailyLossUsd.
C8_NoEntryAfterDailyLoss ==
  (pc = "opening" /\ tk.gateCfg = "live")
    => obs.liveDayRealized > -Val(LiveCfg.maxDailyLossUsd)

\* C10: the paper ledger holds at most one OPEN trade.
C10_AtMostOnePaperTrade == Cardinality(OpenIds(ledger)) <= 1

Bracketed(p) ==
  isNum(p.unrealizedPnl) =>
    /\ isNum(p.maxUnrealizedPnl) /\ isNum(p.minUnrealizedPnl)
    /\ Val(p.maxUnrealizedPnl) >= Val(p.unrealizedPnl)
    /\ Val(p.unrealizedPnl) >= Val(p.minUnrealizedPnl)

\* C12: every position handed to evaluateExits satisfies
\* maxUnrealizedPnl >= unrealizedPnl >= minUnrealizedPnl.
C12_PnlBracketed ==
  pc \in {"exit", "closing"} => Bracketed(tk.positions[tk.idx])

\* A position tracked on an earlier tick is evaluated while its PnL is
\* strictly inside the tracked range on one side.
C12_Witness ==
  /\ pc = "exit"
  /\ isNum(tk.positions[tk.idx].unrealizedPnl)
  /\ Val(tk.positions[tk.idx].maxUnrealizedPnl) > Val(tk.positions[tk.idx].unrealizedPnl)

\* ------------------------------------------------------------------------
\* The eight exit checks of evaluateExits, each on its own, numbered in the
\* order of the source
\* ------------------------------------------------------------------------
ExReasons == <<"Market Rollover", "Pre-settlement Exit", "Max Loss", "Take Profit (mark)",
               "Trailing TP", "Take Profit", "Time Stop", "Stop Loss">>

ExRuleHit(k, position, signals, config, graceState, nowMs) ==
  LET pnl == position.unrealizedPnl
      tl == timeLeftForExit(signals, nowMs)
      age == tradeAgeMs(position, nowMs)
      maxU == position.maxUnrealizedPnl
      maxLossUsd == computeMaxLossUsd(position.contractSize, config)
  IN CASE k = 1 -> isNum(position.marketSlug) /\ isNum(signals.slug)
                     /\ position.marketSlug # signals.slug
       [] k = 2 -> isNum(tl) /\ Val(tl) < config.exitBeforeEndMs
       [] k = 3 -> /\ isNum(pnl) /\ isNum(maxLossUsd) /\ Val(maxLossUsd) > 0
                   /\ Val(pnl) <= -Abs(Val(maxLossUsd))
                   /\ \/ ~okForGrace(position, signals, config, nowMs)
                      \/ breachSet(graceState) /\ graceExpired(graceState, config, nowMs)
                      \/ ~breachSet(graceState) /\ graceState.used
       [] k = 4 -> isNum(config.takeProfitPrice) /\ isNum(position.mark)
                     /\ Val(position.mark) >= Val(config.takeProfitPrice)
       [] k = 5 -> /\ isNum(pnl) /\ config.trailingTakeProfitEnabled
                   /\ config.trailingStartUsd > 0 /\ config.trailingDrawdownUsd > 0
                   /\ isNum(maxU) /\ Val(maxU) >= config.trailingStartUsd
                   /\ Val(pnl) <= Val(maxU) - config.trailingDrawdownUsd
       [] k = 6 -> /\ ~config.trailingTakeProfitEnabled /\ config.takeProfitImmediate
                   /\ isNum(pnl) /\ config.takeProfitPnlUsd >= 0
                   /\ Val(pnl) >= config.takeProfitPnlUsd
       [] k = 7 -> /\ isNum(pnl) /\ isNum(age) /\ config.loserMaxHoldSeconds > 0
                   /\ Val(age) >= config.loserMaxHoldSeconds * 1000 /\ Val(pnl) < 0
       [] k = 8 -> /\ config.stopLossEnabled /\ stopLossHit(position, config)
                   /\ opposingMoreLikely(position, signals, config, nowMs)

\* The checks that match the arguments of the call.
ExHits ==
  {k \in 1..8 : ExRuleHit(k, exIn.position, exIn.signals, exIn.config, exIn.graceState, now)}

\* C13: evaluateExits returns the reason of the first check, in the order
\* rollover, pre-settlement, max loss, high-price take-profit, trailing
\* take-profit, immediate take-profit, time stop, stop loss, that matches, and
\* no decision when none matches.
C13_FirstMatchWins ==
  exOut # NONE =>
    IF ExHits = {}
      THEN Val(exOut).decision = NoDecision
      ELSE \E k \in ExHits :
             /\ \A j \in ExHits : k <= j
             /\ Val(exOut).decision = ExReasons[k]

\* A call in which rollover, pre-settlement, max loss and time stop all match.
C13_Witness ==
  /\ exOut # NONE
  /\ {1, 2, 3, 7} \subseteq ExHits

\* ------------------------------------------------------------------------
\* The executors on their own: openPosition and closePosition are called
\* directly, in any order, with requests drawn from small sets, while the
\* clock advances. exOut holds the last call: its request, what the venue
\* held before it, its result and the order it posted.
\* ------------------------------------------------------------------------
ExecMaxSteps == 3
ExecMaxCalls == 3
MaxLevels == 3
ExecStepMs == 10000
ExecTok == <<"token", 1>>

NoCall ==
  [call |-> "none", n |-> 0, threw |-> FALSE, ok |-> FALSE, posted |-> NONE,
   existed |-> FALSE, shares |-> 0, price |-> 0, balance |-> 0, allowance |-> 0,
   usd |-> 0, prevSellMs |-> NONE, lastSellMs |-> NONE]

ExecVenues ==
  {[InitVenue EXCEPT !.inv = MapSet(EmptyMap, ExecTok,
                                     [qty |-> 10, lastTradeTime |-> StartMs \div 1000]),
                     !.collateral = c, !.allowance = a]
     : c \in {200, 10000}, a \in {4, 100000}}

ExecInit ==
  /\ now = StartMs /\ today = 0 /\ market = InitMarket
  /\ tradingEnabled = FALSE /\ executor = "paper" /\ mmMode = "paper" /\ cfgMode = "paper"
  /\ st = NewTradingState /\ stGen = 0
  /\ pc = "idle" /\ tk = NoTick
  /\ ledger = EmptyMap /\ paperOpenTrade = NONE
  /\ venue \in ExecVenues /\ liveCache = InitLive
  /\ obs = NoObs
  /\ exIn = NONE
  /\ exOut = NoCall

ExecBalance(v) == IF ExecTok \in DOMAIN v.inv THEN v.inv[ExecTok].qty ELSE 0

\* LiveExecutor.closePosition({tradeId, tokenID, shares, ...})
ExecLiveClose ==
  /\ exOut.n < ExecMaxCalls
  /\ \E shares \in {3, 10}, named \in BOOLEAN, px \in Prices, outcome \in Outcomes :
       LET p == [id |-> IF named THEN ExecTok ELSE NONE,
                 tokenID |-> IF named THEN Some(ExecTok) ELSE NONE, shares |-> shares]
           r == LiveClose(liveCache, venue, p, [px |-> px], now, outcome)
       IN /\ venue' = r.venue
          /\ liveCache' = r.cache
          /\ exOut' = [NoCall EXCEPT !.call = "liveClose", !.n = exOut.n + 1,
                                     !.ok = r.closed, !.posted = r.posted,
                                     !.existed = named, !.shares = shares, !.price = px,
                                     !.balance = ExecBalance(venue),
                                     !.allowance = venue.allowance,
                                     !.prevSellMs = exOut.lastSellMs,
                                     !.lastSellMs = IF r.posted # NONE THEN Some(now)
                                                    ELSE exOut.lastSellMs]
  /\ UNCHANGED <<now, today, market, engineVars, pc, tk, ledger, paperOpenTrade, obs, exIn>>

\* LiveExecutor.openPosition({price, ...})
ExecLiveOpen ==
  /\ exOut.n < ExecMaxCalls
  /\ \E px \in Prices \cup {0, 100}, outcome \in Outcomes :
       LET r == LiveOpen(venue, ExecTok[2], px, now, outcome)
       IN /\ venue' = r.venue
          /\ exOut' = [NoCall EXCEPT !.call = "liveOpen", !.n = exOut.n + 1,
                                     !.ok = r.filled, !.posted = r.posted, !.price = px,
                                     !.usd = LiveOpenUsd(venue),
                                     !.lastSellMs = exOut.lastSellMs]
  /\ UNCHANGED <<now, today, market, engineVars, pc, tk, ledger, paperOpenTrade,
                 liveCache, obs, exIn>>

\* PaperExecutor.closePosition(request)
ExecPaperClose ==
  /\ exOut.n < ExecMaxCalls
  /\ \E px \in Prices :
       LET r == PaperClose(ledger, paperOpenTrade, [px |-> px])
       IN /\ ledger' = r.ledger
          /\ paperOpenTrade' = r.openTrade
          /\ exOut' = [NoCall EXCEPT !.call = "paperClose", !.n = exOut.n + 1,
                                     !.ok = r.closed, !.existed = paperOpenTrade # NONE,
                                     !.price = px, !.lastSellMs = exOut.lastSellMs]
  /\ UNCHANGED <<now, today, market, engineVars, pc, tk, venue, liveCache, obs, exIn>>

\* PaperExecutor.openPosition(request)
ExecPaperOpen ==
  /\ exOut.n < ExecMaxCalls
  /\ \E px \in Prices :
       LET r == PaperOpen(ledger, market.slug, PaperCfg.maxTradeUsd, px, now)
       IN /\ ledger' = r.ledger
          /\ paperOpenTrade' = r.openTrade
          /\ exOut' = [NoCall EXCEPT !.call = "paperOpen", !.n = exOut.n + 1,
                                     !.ok = r.filled, !.price = px,
                                     !.lastSellMs = exOut.lastSellMs]
  /\ UNCHANGED <<now, today, market, engineVars, pc, tk, venue, liveCache, obs, exIn>>

ExecAdvance ==
  /\ now < StartMs + ExecMaxSteps * ExecStepMs
  /\ now' = now + ExecStepMs
  /\ UNCHANGED <<today, market, engineVars, pc, tk, execVars, obs, exIn, exOut>>

ExecNext ==
  \/ ExecLiveClose
  \/ ExecLiveOpen
  \/ ExecPaperClose
  \/ ExecPaperOpen
  \/ ExecAdvance

SpecExec == ExecInit /\ [][ExecNext]_vars

\* C14: closePosition for a position that does not exist (no open paper
\* trade, no token or position id in a live request) raises an error.
C14_CloseOfNothingRaises ==
  (exOut.call \in {"liveClose", "paperClose"} /\ ~exOut.existed) => exOut.threw

\* C16: a SELL order for a token is posted no sooner than 30 seconds after
\* the previous SELL order for that token.
C16_CooldownBetweenSells ==
  (exOut.call = "liveClose" /\ exOut.posted # NONE /\ exOut.prevSellMs # NONE)
    => now - Val(exOut.prevSellMs) >= 30000

\* C17: the size of every SELL order posted is at most the requested share
\* count, the token balance at the venue and the token allowance at the venue.
C17_SellWithinLimits ==
  (exOut.call = "liveClose" /\ exOut.posted # NONE)
    => /\ Val(exOut.posted).size <= exOut.shares
       /\ Val(exOut.posted).size <= exOut.balance
       /\ Val(exOut.posted).size <= exOut.allowance

\* C18: an entry whose affordable share count floor(usd / price) is below 5,
\* or whose buy price is outside [0.001, 0.999], posts no order and returns
\* filled = false.
C18_RejectsSmallOrBadPrice ==
  (/\ exOut.call = "liveOpen"
   /\ \/ exOut.price < 1 \/ exOut.price > 99
      \/ exOut.usd \div exOut.price < 5)
    => exOut.posted = NONE /\ ~exOut.ok

\* C15: no failure of an executor call (fetch, mark, close, re-fetch,
\* balance, open) rejects processSignals: the tick goes on or returns.
C15_NoFaultEscapes == pc # "crashed"

\* The mark call failed and the tick went on to ask for a close of the
\* un-marked position; a close call failed and the tick went on.
C15_Witness ==
  \/ tk.fault = "mark" /\ pc = "closing"
  \/ tk.fault = "close" /\ pc = "refetch"

\* openPosition has bought at the venue or added a trade to the ledger
Opened == venue'.buys > venue.buys \/ DOMAIN ledger' # DOMAIN ledger

\* The last successful "Max Loss" close was of a position of the market of
\* the tick's snapshot
MaxLossHere == obs.maxLoss # NONE /\ Val(obs.maxLoss).slug = tk.signals.slug

\* C19 as stated: once a position of market M was closed on a "Max Loss"
\* decision with skipMarketAfterMaxLoss enabled, no position is opened while
\* the current market is M.
C19_NoReentryAfterMaxLoss ==
  [][(pc = "opening" /\ Opened) => ~MaxLossHere]_vars

\* C19 (amended): ... no position is opened while the current market is M,
\* as long as the engine runs on the TradingState that recorded the close
\* (a mode switch replaces it by a fresh one).
C19_NoReentryOnSameState ==
  [][(pc = "opening" /\ Opened /\ MaxLossHere) => Val(obs.maxLoss).gen # stGen]_vars

\* The entry gate has run in the market of a "Max Loss" close, on the state
\* that recorded it, with a recommendation to enter.
C19_Witness ==
  /\ pc = "idle" /\ tradingEnabled
  /\ obs.maxLoss = Some([slug |-> market.slug, gen |-> stGen])
  /\ st.skipMarketUntilNextSlug = Some(market.slug)
  /\ ~HasOpen

\* ------------------------------------------------------------------------
\* The entry gate on its own: recommendation gating and side resolution
\* (steps 1 and 2 of computeEntryBlockers) with the recommendation, the
\* gating mode and the model probabilities drawn from small sets; the other
\* checks run on a fresh TradingState.
\* ------------------------------------------------------------------------
NoSide == "null"

\* Steps 1 and 2: blockers, effectiveSide, sideInferred, and whether the
\* function has returned early
RecGate(rec, recGating, modelUp, modelDown) ==
  LET strictRec == recGating = "strict"
      recBlock == IF rec.action # "ENTER" THEN {"Rec"} ELSE {}
      infer == rec.side = NoSide /\ ~strictRec /\ isNum(modelUp) /\ isNum(modelDown)
      effectiveSide == IF infer
                         THEN (IF Val(modelUp) >= Val(modelDown) THEN "UP" ELSE "DOWN")
                         ELSE rec.side
  IN IF strictRec /\ rec.action # "ENTER"
       THEN [blockers |-> recBlock, effectiveSide |-> NoSide, sideInferred |-> FALSE,
             returned |-> TRUE]
     ELSE IF effectiveSide = NoSide
       THEN [blockers |-> recBlock \cup {"Missing side"}, effectiveSide |-> NoSide,
             sideInferred |-> infer, returned |-> TRUE]
     ELSE [blockers |-> recBlock, effectiveSide |-> effectiveSide,
           sideInferred |-> infer, returned |-> FALSE]

GateRecs == [action : {"ENTER", "HOLD", "NO_TRADE"}, side : {"UP", "DOWN", NoSide}]

GateInit ==
  /\ now = StartMs /\ today = 0 /\ market = InitMarket
  /\ tradingEnabled = TRUE /\ executor = "paper" /\ mmMode = "paper" /\ cfgMode = "paper"
  /\ st = NewTradingState /\ stGen = 0
  /\ pc = "idle" /\ tk = NoTick
  /\ ledger = EmptyMap /\ paperOpenTrade = NONE
  /\ venue = InitVenue /\ liveCache = InitLive
  /\ obs = NoObs
  /\ exIn \in [rec : GateRecs, recGating : {"strict", "loose"},
               modelUp : {NONE, Some(40), Some(60)}, px : Prices]
  /\ exOut = NONE

\* computeEntryBlockers(signals, config, state, candleCount), then
\* if (blockers.length > 0) return; of processSignals
GateEvaluate ==
  /\ exOut = NONE
  /\ LET modelDown == IF isNum(exIn.modelUp) THEN Some(100 - Val(exIn.modelUp)) ELSE NONE
         g == RecGate(exIn.rec, exIn.recGating, exIn.modelUp, modelDown)
         rest == computeEntryBlockers(Snapshot(market, exIn.px), TRUE, Cfg(cfgMode),
                                      st, now).blockers
         blockers == IF g.returned THEN g.blockers ELSE g.blockers \cup rest
     IN exOut' = Some([blockers |-> blockers, effectiveSide |-> g.effectiveSide,
                       sideInferred |-> g.sideInferred, enters |-> blockers = {}])
  /\ UNCHANGED <<now, today, market, engineVars, pc, tk, execVars, obs, exIn>>

GateNext == GateEvaluate

SpecGate == GateInit /\ [][GateNext]_vars

\* The side the claim expects: the recommended one or, if the recommendation
\* names none, the one the model favours
GateExpectedSide ==
  IF exIn.rec.side # NoSide THEN exIn.rec.side
  ELSE IF Val(exIn.modelUp) >= 50 THEN "UP" ELSE "DOWN"

\* C20: under loose gating a recommendation that is not ENTER does not block
\* the entry: when nothing else blocks, the engine goes on to open on the
\* recommended side or on the side the model favours.
C20_LooseDoesNotBlock ==
  (/\ exOut # NONE
   /\ exIn.recGating = "loose" /\ exIn.rec.action # "ENTER"
   /\ Val(exOut).blockers \subseteq {"Rec"})
    => Val(exOut).enters /\ Val(exOut).effectiveSide = GateExpectedSide

\* ------------------------------------------------------------------------
\* The entry gate as a whole, called twice in a row at one clock value on a
\* TradingState that recordExit calls have shaped: steps 1 and 2 (RecGate),
\* the state, clock and quote checks, the phase thresholds (step 23) and the
\* circuit breaker (step 24).  Probabilities and edges are in percent.
\* ------------------------------------------------------------------------
\* A config that carries circuitBreakerConsecutiveLosses (read with ?? 0 by
\* step 24; config.js itself does not set the key)
EntryCfg == [PaperCfg EXCEPT !.circuitBreakerConsecutiveLosses = CbThreshold]

\* config.js: the phase thresholds and their boosts
Thresholds ==
  [ minProbEarly |-> 52, minProbMid |-> 53, minProbLate |-> 55,
    edgeEarly |-> 2, edgeMid |-> 3, edgeLate |-> 5,
    midProbBoost |-> 1, midEdgeBoost |-> 1,
    inferredProbBoost |-> 1, inferredEdgeBoost |-> 1,
    weekendTighteningEnabled |-> TRUE,
    weekendProbBoost |-> 3, weekendEdgeBoost |-> 3 ]

computeEffectiveThresholds(config, isWeekend, phase, sideInferred, strictRec) ==
  LET baseProb == IF phase = "EARLY" THEN config.minProbEarly
                  ELSE IF phase = "MID" THEN config.minProbMid ELSE config.minProbLate
      baseEdge == IF phase = "EARLY" THEN config.edgeEarly
                  ELSE IF phase = "MID" THEN config.edgeMid ELSE config.edgeLate
      weekendTightening == config.weekendTighteningEnabled /\ isWeekend
      wProb == IF weekendTightening THEN config.weekendProbBoost ELSE 0
      wEdge == IF weekendTightening THEN config.weekendEdgeBoost ELSE 0
      mProb == IF phase = "MID" THEN config.midProbBoost ELSE 0
      mEdge == IF phase = "MID" THEN config.midEdgeBoost ELSE 0
      iProb == IF ~strictRec /\ sideInferred THEN config.inferredProbBoost ELSE 0
      iEdge == IF ~strictRec /\ sideInferred THEN config.inferredEdgeBoost ELSE 0
  IN [minProb |-> baseProb + wProb + mProb + iProb,
      edgeThreshold |-> baseEdge + wEdge + mEdge + iEdge]

\* 23. Phase-based thresholds: if (phase && rec?.side) { ... }
PhaseGate(rec, effectiveSide, sideInferred, strictRec, modelUp, modelDown, config, isWeekend) ==
  IF rec.phase # NoSide /\ rec.side # NoSide
    THEN LET th == computeEffectiveThresholds(config, isWeekend, rec.phase,
                                              sideInferred, strictRec)
             modelProb == IF effectiveSide = "UP" THEN modelUp ELSE modelDown
         IN (IF isNum(modelProb) /\ Val(modelProb) < th.minProb THEN {"Prob"} ELSE {})
            \cup (IF rec.edge < th.edgeThreshold THEN {"Edge"} ELSE {})
    ELSE {}

\* computeEntryBlockers(signals, config, state, candleCount) from its first
\* step to its last; in is the part of the signals bundle the steps read
EntryGate(in, config, thresholds, s, nowMs) ==
  LET modelDown == IF isNum(in.modelUp) THEN Some(100 - Val(in.modelUp)) ELSE NONE
      strictRec == in.recGating = "strict"
      g == RecGate(in.rec, in.recGating, in.modelUp, modelDown)
      rest == computeEntryBlockers(Snapshot(market, in.px), TRUE, config, s, nowMs)
      phase == PhaseGate(in.rec, g.effectiveSide, g.sideInferred, strictRec,
                         in.modelUp, modelDown, thresholds, in.isWeekend)
  IN IF g.returned
       THEN [blockers |-> g.blockers, effectiveSide |-> g.effectiveSide,
             sideInferred |-> g.sideInferred, state |-> s]
       ELSE [blockers |-> g.blockers \cup rest.blockers \cup phase,
             effectiveSide |-> g.effectiveSide,
             sideInferred |-> g.sideInferred, state |-> rest.state]

EntryRecs == [action : {"ENTER", "NO_TRADE"}, side : {"UP", NoSide},
              phase : {"EARLY", "MID"}, edge : {0, 4, 10}]

EntryInputs == [rec : EntryRecs, recGating : {"strict", "loose"},
                modelUp : {NONE, Some(54), Some(60)}, px : {50},
                isWeekend : BOOLEAN]

\* What the caller sees of a call
EntryResult(r) ==
  [blockers |-> r.blockers, effectiveSide |-> r.effectiveSide,
   sideInferred |-> r.sideInferred]

EntryInit ==
  /\ now = StartMs /\ today = 0 /\ market = InitMarket
  /\ tradingEnabled = TRUE /\ executor = "paper" /\ mmMode = "paper" /\ cfgMode = "paper"
  /\ st = NewTradingState /\ stGen = 0
  /\ pc = "idle" /\ tk = NoTick
  /\ ledger = EmptyMap /\ paperOpenTrade = NONE
  /\ venue = InitVenue /\ liveCache = InitLive
  /\ obs = [exits |-> 0]
  /\ exIn = NONE /\ exOut = NONE

\* state.recordExit(pnl, ...) of a closed trade
EntryRecordExit ==
  /\ obs.exits < MaxExits
  /\ \E pnl \in {-100, 100} :
       st' = recordExit(st, pnl, Some(market.slug), FALSE, FALSE, now)
  /\ obs' = [obs EXCEPT !.exits = @ + 1]
  /\ exIn' = NONE /\ exOut' = NONE
  /\ UNCHANGED <<now, today, market, tradingEnabled, executor, mmMode, cfgMode, stGen,
                 pc, tk, execVars>>

\* The first of two calls: before is the state handed in
EntryCall ==
  /\ exOut = NONE
  /\ \E in \in EntryInputs :
       LET r == EntryGate(in, EntryCfg, Thresholds, st, now)
       IN /\ exIn' = Some(in)
          /\ st' = r.state
          /\ exOut' = Some([before |-> st, first |-> EntryResult(r), second |-> NONE])
  /\ UNCHANGED <<now, today, market, tradingEnabled, executor, mmMode, cfgMode, stGen,
                 pc, tk, execVars, obs>>

\* The second call, on the same arguments and the same state object
EntryCallAgain ==
  /\ exOut # NONE /\ Val(exOut).second = NONE
  /\ LET r == EntryGate(Val(exIn), EntryCfg, Thresholds, st, now)
     IN /\ st' = r.state
        /\ exOut' = Some([Val(exOut) EXCEPT !.second = Some(EntryResult(r))])
  /\ UNCHANGED <<now, today, market, tradingEnabled, executor, mmMode, cfgMode, stGen,
                 pc, tk, execVars, obs, exIn>>

EntryAdvance ==
  /\ now < StartMs + MaxTime * StepMs
  /\ now' = now + StepMs
  /\ exIn' = NONE /\ exOut' = NONE
  /\ UNCHANGED <<today, market, engineVars, pc, tk, execVars, obs>>

EntryNext == EntryRecordExit \/ EntryCall \/ EntryCallAgain \/ EntryAdvance

SpecEntry == EntryInit /\ [][EntryNext]_vars

\* C21: computeEntryBlockers leaves the session state it is given as it was,
\* and a second call on the same signals, config, state and candle count
\* returns the blockers, side and inferred flag of the first.
C21_GateIsPure ==
  exOut # NONE =>
    /\ st = Val(exOut).before
    /\ Val(exOut).second # NONE => Val(Val(exOut).second) = Val(exOut).first

\* C22: an entry allowed on an inferred side has a model probability and an
\* edge at or above the phase thresholds with the inferred-side boosts.
C22_InferredMeetsBoosted ==
  (exOut # NONE /\ Val(exOut).first.sideInferred /\ Val(exOut).first.blockers = {}) =>
    LET in == Val(exIn)
        th == computeEffectiveThresholds(Thresholds, in.isWeekend, in.rec.phase,
                                         TRUE, FALSE)
        modelProb == IF Val(exOut).first.effectiveSide = "UP"
                       THEN Val(in.modelUp) ELSE 100 - Val(in.modelUp)
    IN modelProb >= th.minProb /\ in.rec.edge >= th.edgeThreshold

\* ------------------------------------------------------------------------
\* Exit rules of the engine
\* ------------------------------------------------------------------------
\* The market whose outcome token the position holds
PositionMarket(p) == Val(p.tokenID)[2]

\* C23: a position of another market than the one the snapshot of the tick
\* is about gets the "Market Rollover" decision when the exit loop reaches it,
\* whichever executor holds it.
C23_RolloverExits ==
  [][(pc = "exit" /\ PositionMarket(tk.positions[tk.idx]) # tk.signals.slug)
       => (pc' = "closing" /\ tk'.reason = "Market Rollover")]_vars

\* The position of the call is old enough for the time stop and not in profit
ExTimeStopDue ==
  LET age == tradeAgeMs(exIn.position, now)
  IN /\ exIn.config.loserMaxHoldSeconds > 0
     /\ isNum(age) /\ Val(age) >= exIn.config.loserMaxHoldSeconds * 1000
     /\ isNum(exIn.position.unrealizedPnl) /\ Val(exIn.position.unrealizedPnl) <= 0

\* C24: when none of the checks before it matches, the time stop fires for a
\* position that has reached the max-hold age with a PnL <= 0, and it never
\* fires for a position in profit or younger than the max-hold age.
C24_TimeStopOnNonPositive ==
  exOut # NONE =>
    /\ (ExTimeStopDue /\ ExHits \cap (1..6) = {}) => Val(exOut).decision = "Time Stop"
    /\ Val(exOut).decision = "Time Stop" => ExTimeStopDue

\* The position the exit loop is at has fallen from the peak given, which
\* had reached the trailing start, by the trailing drawdown or more, and none
\* of the checks before the trailing take-profit matches
TrailDue(peaks) ==
  /\ pc = "exit"
  /\ LET p == tk.positions[tk.idx]
         config == Cfg(cfgMode)
     IN /\ isNum(p.unrealizedPnl)
        /\ config.trailingTakeProfitEnabled
        /\ PosId(p) \in DOMAIN peaks
        /\ peaks[PosId(p)] >= config.trailingStartUsd
        /\ Val(p.unrealizedPnl) <= peaks[PosId(p)] - config.trailingDrawdownUsd
        /\ \A k \in 1..4 : ~ExRuleHit(k, p, EvalSignals(tk.signals), config,
                                      getGraceState(st, PosId(p)), now)

\* C25: once the PnL of a position has reached the trailing start at some
\* tick, a later tick at which the PnL is at or below the peak of the
\* position's whole life minus the drawdown gives the "Trailing TP" decision,
\* unless a check of higher priority matches.
C25_TrailingOnLifePeak ==
  [][TrailDue(obs.peak) => (pc' = "closing" /\ tk'.reason = "Trailing TP")]_vars

\* The cooldown of the recorded exit e (null: none recorded) has elapsed
CooldownOver(e, seconds) == e = NONE \/ now - Val(e).at >= seconds * 1000

\* e was recorded on the TradingState the engine holds
OnThisState(e) == e # NONE /\ Val(e).gen = stGen

CapConfigs ==
  {PaperCfg,
   [PaperCfg EXCEPT !.maxLossUsdPerTrade = NONE],
   [PaperCfg EXCEPT !.dynamicStopLossEnabled = TRUE]}

CapInputs ==
  {[rawPnl |-> IF atCallSite THEN sh * px - cs ELSE -cs - 1000,
    contractSize |-> cs, shares |-> sh, exitPrice |-> px, config |-> c]
     : atCallSite \in BOOLEAN,
       cs \in {1000, 5000, 10000}, sh \in {0, 100, 200}, px \in {0, 10, 25, 50, 75},
       c \in CapConfigs}

CapInit ==
  /\ now = StartMs /\ today = 0 /\ market = InitMarket
  /\ tradingEnabled = FALSE /\ executor = "paper" /\ mmMode = "paper" /\ cfgMode = "paper"
  /\ st = NewTradingState /\ stGen = 0
  /\ pc = "idle" /\ tk = NoTick
  /\ ledger = EmptyMap /\ paperOpenTrade = NONE
  /\ venue = InitVenue /\ liveCache = InitLive
  /\ obs = NoObs
  /\ exIn \in CapInputs
  /\ exOut = NONE

CapEvaluate ==
  /\ exOut = NONE
  /\ exOut' = Some(capPnl(exIn.rawPnl, exIn.contractSize, exIn.shares, exIn.exitPrice,
                          exIn.config))
  /\ UNCHANGED <<now, today, market, engineVars, pc, tk, execVars, obs, exIn>>

CapNext == CapEvaluate

SpecCap == CapInit /\ [][CapNext]_vars

\* rawPnl is below the negative max-loss amount of the config
CapApplies ==
  LET maxLossUsd == computeMaxLossUsd(Some(exIn.contractSize), exIn.config)
  IN isNum(maxLossUsd) /\ Val(maxLossUsd) > 0 /\ exIn.rawPnl < -Abs(Val(maxLossUsd))

\* C27: when capPnl caps the loss, the pair it returns satisfies
\* shares x exitPrice = contractSize + pnl (the exit price being num / den);
\* in every other case it returns rawPnl and exitPrice unchanged.
C27_CapKeepsLedgerConsistent ==
  exOut # NONE =>
    IF CapApplies
      THEN exIn.shares * Val(exOut).num = (exIn.contractSize + Val(exOut).pnl) * Val(exOut).den
      ELSE /\ Val(exOut).pnl = exIn.rawPnl
           /\ Val(exOut).num = exIn.exitPrice /\ Val(exOut).den = 1

\* C27 (amended): when capPnl caps the loss, pnl is the negative max-loss
\* amount, and if shares are held and the capped value contractSize + pnl is
\* positive the pair satisfies shares x exitPrice = contractSize + pnl;
\* without shares or with a capped value that is not positive the exit price
\* is returned unchanged.  In every other case capPnl returns rawPnl and
\* exitPrice unchanged.
C27_CapKeepsLedgerWhenSharesHeld ==
  exOut # NONE =>
    IF CapApplies
      THEN /\ Val(exOut).pnl = -Abs(Val(computeMaxLossUsd(Some(exIn.contractSize), exIn.config)))
           /\ IF exIn.shares > 0 /\ exIn.contractSize + Val(exOut).pnl > 0
                THEN exIn.shares * Val(exOut).num
                       = (exIn.contractSize + Val(exOut).pnl) * Val(exOut).den
                ELSE Val(exOut).num = exIn.exitPrice /\ Val(exOut).den = 1
      ELSE /\ Val(exOut).pnl = exIn.rawPnl
           /\ Val(exOut).num = exIn.exitPrice /\ Val(exOut).den = 1

\* A capped loss on held shares whose exit price was adjusted
C27_Witness ==
  /\ exOut # NONE /\ CapApplies /\ exIn.shares > 0
  /\ exIn.rawPnl = exIn.shares * exIn.exitPrice - exIn.contractSize
  /\ Val(exOut).num # exIn.exitPrice * Val(exOut).den

\* ------------------------------------------------------------------------
\* computeTradeSize on its own: balances and configs drawn from small sets
\* (cents; stakePct in percent, 0 for fixed sizing)
\* ------------------------------------------------------------------------
SizeBalances == {-100, 0, 1, 3000, 5000, 100000, 1000000}

SizeConfigs ==
  {[PaperCfg EXCEPT !.stakePct = sp, !.minTradeUsd = mn, !.maxTradeUsd = mx]
     : sp \in {0, 8}, mn \in {0, 2500, 5000}, mx \in {1000, 25000}}

SizeInit ==
  /\ now = StartMs /\ today = 0 /\ market = InitMarket
  /\ tradingEnabled = FALSE /\ executor = "paper" /\ mmMode = "paper" /\ cfgMode = "paper"
  /\ st = NewTradingState /\ stGen = 0
  /\ pc = "idle" /\ tk = NoTick
  /\ ledger = EmptyMap /\ paperOpenTrade = NONE
  /\ venue = InitVenue /\ liveCache = InitLive
  /\ obs = NoObs
  /\ exIn \in [balance : SizeBalances, config : SizeConfigs]
  /\ exOut = NONE

SizeEvaluate ==
  /\ exOut = NONE
  /\ exOut' = Some(computeTradeSize(exIn.balance, exIn.config))
  /\ UNCHANGED <<now, today, market, engineVars, pc, tk, execVars, obs, exIn>>

SizeNext == SizeEvaluate

SpecSize == SizeInit /\ [][SizeNext]_vars

\* C28: the size lies within [0, balance] and, if positive, within
\* [minTradeUsd, maxTradeUsd].
C28_SizeWithinBounds ==
  exOut # NONE =>
    /\ 0 <= Val(exOut) /\ Val(exOut) <= Max(0, exIn.balance)
    /\ Val(exOut) > 0 =>
         (exIn.config.minTradeUsd <= Val(exOut) /\ Val(exOut) <= exIn.config.maxTradeUsd)

\* C28 (amended): the size lies within [0, balance]; if positive and
\* minTradeUsd <= maxTradeUsd, it is at most maxTradeUsd and it is below
\* minTradeUsd only when the balance is, in which case it is the balance.
C28_SizeWithinBalanceAndCap ==
  exOut # NONE =>
    /\ 0 <= Val(exOut) /\ Val(exOut) <= Max(0, exIn.balance)
    /\ (Val(exOut) > 0 /\ exIn.config.minTradeUsd <= exIn.config.maxTradeUsd) =>
         /\ Val(exOut) <= exIn.config.maxTradeUsd
         /\ Val(exOut) >= exIn.config.minTradeUsd \/ Val(exOut) = exIn.balance

\* A balance below minTradeUsd: the size is the balance
C28_Witness ==
  /\ exOut # NONE
  /\ 0 < exIn.balance /\ exIn.balance < exIn.config.minTradeUsd
  /\ exIn.config.minTradeUsd <= exIn.config.maxTradeUsd
  /\ Val(exOut) = exIn.balance

\* ------------------------------------------------------------------------
\* PaperExecutor._simulateFill on its own.  A level is [price, size]: price
\* in cents per share, size in shares; a level whose price or size is not
\* positive is one the walk skips.  Notional and cost are cents, shares are
\* counted in hundredths (every valid price divides 100 cents), and the
\* volume-weighted price is the exact quotient num / den.
\* ------------------------------------------------------------------------
LevelPrices == {0, 20, 25, 50}
LevelSizes == {0, 2, 4}
Levels == [price : LevelPrices, size : LevelSizes]
Books == UNION {[1..n -> Levels] : n \in 0..MaxLevels}
Notionals == {0, 50, 100, 300}

ValidLevel(l) == l.price > 0 /\ l.size > 0

\* The comparator of the sort: negative when a goes before b
Compare(a, b, direction) ==
  IF direction = "BUY" THEN a.price - b.price ELSE b.price - a.price

\* Array.prototype.sort is stable: a level goes behind every level that
\* does not compare greater than it.
RECURSIVE InsertLevel(_, _, _)
InsertLevel(sorted, l, direction) ==
  IF sorted = <<>> THEN <<l>>
  ELSE IF Compare(sorted[1], l, direction) <= 0
    THEN <<sorted[1]>> \o InsertLevel(Tail(sorted), l, direction)
    ELSE <<l>> \o sorted

RECURSIVE SortFrom(_, _, _)
SortFrom(levels, sorted, direction) ==
  IF levels = <<>> THEN sorted
  ELSE SortFrom(Tail(levels), InsertLevel(sorted, levels[1], direction), direction)

\* Mutant of SortLevels: the levels are sorted ascending whatever the direction.
SortLevels_Ascending(levels, direction) == SortFrom(levels, <<>>, "BUY")

SortLevels(levels, direction) == SortFrom(levels, <<>>, direction)

\* The loop over the sorted levels; fills[i] is fillUsd of sorted[i]
RECURSIVE WalkLevels(_, _, _)
WalkLevels(sorted, i, acc) ==
  IF i > Len(sorted) \/ acc.remainingUsd <= 0 THEN acc
  ELSE LET l == sorted[i]
       IN IF ~ValidLevel(l)
            THEN WalkLevels(sorted, i + 1, [acc EXCEPT !.fills = Append(@, 0)])
            ELSE LET levelNotional == l.price * l.size
                     fillUsd == Min(acc.remainingUsd, levelNotional)
                     fillShares == (fillUsd * 100) \div l.price
                 IN WalkLevels(sorted, i + 1,
                      [remainingUsd |-> acc.remainingUsd - fillUsd,
                       totalShares |-> acc.totalShares + fillShares,
                       totalCost |-> acc.totalCost + fillUsd,
                       levelsConsumed |-> acc.levelsConsumed + 1,
                       fills |-> Append(acc.fills, fillUsd)])

\* NONE is the null the function returns; sorted, fills and totalCost are
\* its local variables, kept beside what it returns.
simulateFill(book, notionalUsd, direction) ==
  IF book = NONE THEN NONE
  ELSE LET levels == IF direction = "BUY" THEN Val(book).asks ELSE Val(book).bids
       IN IF Len(levels) = 0 THEN NONE
          ELSE LET sorted == SortLevels(levels, direction)
                   w == WalkLevels(sorted, 1,
                          [remainingUsd |-> notionalUsd, totalShares |-> 0, totalCost |-> 0,
                           levelsConsumed |-> 0, fills |-> <<>>])
               IN IF w.totalShares <= 0 \/ w.totalCost <= 0 THEN NONE
                  ELSE Some([vwapNum |-> w.totalCost * 100, vwapDen |-> w.totalShares,
                             totalShares |-> w.totalShares,
                             levelsConsumed |-> w.levelsConsumed,
                             totalCost |-> w.totalCost,
                             sorted |-> sorted, fills |-> w.fills])

FillInputs ==
  {[book |-> b, notionalUsd |-> n, direction |-> d]
     : b \in {NONE} \cup {Some([asks |-> lv, bids |-> lv]) : lv \in Books},
       n \in Notionals, d \in {"BUY", "SELL"}}

FillInit ==
  /\ now = StartMs /\ today = 0 /\ market = InitMarket
  /\ tradingEnabled = FALSE /\ executor = "paper" /\ mmMode = "paper" /\ cfgMode = "paper"
  /\ st = NewTradingState /\ stGen = 0
  /\ pc = "idle" /\ tk = NoTick
  /\ ledger = EmptyMap /\ paperOpenTrade = NONE
  /\ venue = InitVenue /\ liveCache = InitLive
  /\ obs = NoObs
  /\ exIn \in FillInputs
  /\ exOut = NONE

FillEvaluate ==
  /\ exOut = NONE
  /\ exOut' = Some(simulateFill(exIn.book, exIn.notionalUsd, exIn.direction))
  /\ UNCHANGED <<now, today, market, engineVars, pc, tk, execVars, obs, exIn>>

FillNext == FillEvaluate

SpecFill == FillInit /\ [][FillNext]_vars

FillLevels == IF exIn.direction = "BUY" THEN Val(exIn.book).asks ELSE Val(exIn.book).bids

RECURSIVE DepthOf(_)
DepthOf(levels) ==
  IF levels = <<>> THEN 0
  ELSE (IF ValidLevel(levels[1]) THEN levels[1].price * levels[1].size ELSE 0)
         + DepthOf(Tail(levels))

FillDepth == IF exIn.book = NONE THEN 0 ELSE DepthOf(FillLevels)

FillAt(r, i) == IF i <= Len(r.fills) THEN r.fills[i] ELSE 0

\* p is at least as good a price as q for the direction
BetterOrEqual(p, q) == IF exIn.direction = "BUY" THEN p <= q ELSE p >= q

\* C29: a simulated fill consumes the levels in price-priority order (asks
\* ascending for a buy, bids descending for a sell: a level is touched only
\* when every valid level at a strictly better price is fully consumed)
\* until the notional is exhausted or the book is empty; the filled cost is
\* min(requested notional, total depth of the valid levels), null being
\* returned exactly when that is not positive, and the returned price is
\* the filled cost divided by the filled shares.
C29_FillWalksBookInPriceOrder ==
  exOut # NONE =>
    LET res == Val(exOut)
    IN /\ res = NONE <=> Min(exIn.notionalUsd, FillDepth) <= 0
       /\ res # NONE =>
            LET r == Val(res)
            IN /\ r.totalCost = Min(exIn.notionalUsd, FillDepth)
               /\ r.vwapNum * r.totalShares = r.totalCost * 100 * r.vwapDen
               /\ Len(r.sorted) = Len(FillLevels)
               /\ \A l \in Levels :
                    Cardinality({i \in DOMAIN r.sorted : r.sorted[i] = l})
                      = Cardinality({i \in DOMAIN FillLevels : FillLevels[i] = l})
               /\ \A i \in DOMAIN r.sorted :
                    /\ 0 <= FillAt(r, i)
                    /\ FillAt(r, i) <= (IF ValidLevel(r.sorted[i])
                                          THEN r.sorted[i].price * r.sorted[i].size ELSE 0)
               /\ \A i, j \in DOMAIN r.sorted :
                    (/\ ValidLevel(r.sorted[i]) /\ FillAt(r, j) > 0
                     /\ r.sorted[i].price # r.sorted[j].price
                     /\ BetterOrEqual(r.sorted[i].price, r.sorted[j].price))
                      => FillAt(r, i) = r.sorted[i].price * r.sorted[i].size

\* A sell that walks past the best bid into a worse one, passing over a
\* level that is not valid, and stops inside the second
C29_Witness ==
  /\ exOut # NONE /\ Val(exOut) # NONE
  /\ exIn.direction = "SELL"
  /\ Val(Val(exOut)).levelsConsumed = 2
  /\ Val(Val(exOut)).totalCost = exIn.notionalUsd
  /\ Val(Val(exOut)).totalCost < FillDepth
  /\ Val(Val(exOut)).vwapNum * 2 # Val(Val(exOut)).vwapDen * 100
  /\ \E i \in DOMAIN FillLevels : ~ValidLevel(FillLevels[i])
  /\ FillLevels # Val(Val(exOut)).sorted

\* ------------------------------------------------------------------------
\* Stop and kill requests against a tick in flight (Spec)
\* ------------------------------------------------------------------------
\* The step is the openPosition call of the tick, carried out
OpenCarriedOut ==
  IF tk.callee = "live"
    THEN \E outcome \in Outcomes :
           venue' = LiveOpen(venue, market.slug, tk.signals.px, now, outcome).venue
    ELSE ledger' = PaperOpen(ledger, tk.signals.slug, tk.sizeUsd, tk.signals.px, now).ledger

\* C30: a kill or stop request that arrives while a tick is suspended at an
\* executor call does not abort the tick.  The request leaves the tick where
\* it is; with trading disabled the tick still goes from the fetch through
\* marking and every exit step to the re-fetch without returning, and its
\* openPosition call is carried out; a tick is past its first line only if
\* trading was enabled when it began.
C30_StopDoesNotAbortTick ==
  [][/\ (tradingEnabled /\ ~tradingEnabled') => (pc' = pc /\ tk' = tk)
     /\ (~tradingEnabled /\ pc \in {"fetch1", "mark", "exit", "closing"}) => pc' # "idle"
     /\ (~tradingEnabled /\ pc = "closing" /\ pc' # "closing")
          => (pc' = (IF tk.idx < Len(tk.positions) THEN "exit" ELSE "refetch")
              /\ tk'.done = tk.done + 1)
     /\ (~tradingEnabled /\ pc = "opening" /\ pc' # "opening") => OpenCarriedOut
     /\ pc' # "idle" => tk'.enabledAtStart]_vars

\* A paper tick past the entry gate with trading disabled and no mode switch
\* since it began: the request came while it waited for its close
C30_Witness ==
  /\ pc = "balance" /\ tk.callee = "paper"
  /\ ~tradingEnabled /\ ~obs.sinceSwitch
  /\ Len(tk.closeAsked) > 0

\* ------------------------------------------------------------------------
\* The consecutive-loss counter over sequences of recorded exits (SpecCB)
\* ------------------------------------------------------------------------
\* C31: each recorded exit with pnl < 0 increases the consecutive-loss
\* counter by exactly one, and each recorded exit with pnl >= 0, a zero PnL
\* included, resets it to 0.
C31_CounterFollowsExits ==
  obs.lastExit # NONE =>
    st.consecutiveLosses = IF Val(obs.lastExit).pnl < 0
                             THEN Val(obs.lastExit).lossesBefore + 1
                             ELSE 0

\* A zero-PnL exit recorded after two losses in a row
C31_Witness ==
  /\ obs.lastExit # NONE
  /\ Val(obs.lastExit).pnl = 0
  /\ Val(obs.lastExit).lossesBefore >= 2
  /\ st.consecutiveLosses = 0

\* ------------------------------------------------------------------------
\* Orders after a mode switch (SpecSwitch)
\* ------------------------------------------------------------------------
\* The step is the return of a closePosition or openPosition call in which
\* the executor sent an order (the paper executor: closed or opened a trade)
OrderSent ==
  \/ /\ pc = "closing" /\ pc' # "closing"
     /\ IF tk.callee = "live"
          THEN LiveClose(liveCache, venue, tk.positions[tk.idx], tk.signals, now,
                         "matched").posted # NONE
          ELSE paperOpenTrade # NONE
  \/ /\ pc = "opening" /\ pc' # "opening"
     /\ IF tk.callee = "live"
          THEN LiveOpen(venue, market.slug, tk.signals.px, now, "matched").posted # NONE
          ELSE PaperOpen(ledger, tk.signals.slug, tk.sizeUsd, tk.signals.px, now).filled

\* C32: once a mode switch has completed, no close or open call made before
\* trading is started again sends an order to the executor, a tick in flight
\* at the moment of the switch included.
C32_NoOrderAfterSwitch ==
  [][~(OrderSent /\ obs.callUnstarted)]_vars

\* ------------------------------------------------------------------------
\* One live entry at a time (SpecEntries)
\* ------------------------------------------------------------------------
\* The step is an openPosition call of the live executor whose BUY order
\* the venue accepted
BuyPlaced == pc = "opening" /\ tk.callee = "live" /\ venue'.buys > venue.buys

\* C33: in live mode, once a BUY order has been placed no further BUY order
\* is placed until the position of the first has been closed, however stale
\* the cached trade history and whether or not the first order has filled.
C33_OneLiveEntry ==
  [][~(BuyPlaced /\ obs.openEntry)]_vars

\* C33, the case of the stale cache alone: no BUY order is placed while the
\* venue holds the position of an earlier one.
C33_NoBuyWhileHolding ==
  [][~(BuyPlaced /\ DOMAIN venue.inv # {})]_vars

\* ------------------------------------------------------------------------
\* Exits recorded per position (SpecCloses)
\* ------------------------------------------------------------------------
\* C34: the exit of a position is recorded at most once: after a close of
\* the position was reported closed (recordExit and clearPosition done), no
\* later close of the same position is reported closed and recorded.
C34_ExitRecordedOnce ==
  \A id \in DOMAIN obs.recorded : obs.recorded[id] <= 1

\* ------------------------------------------------------------------------
\* Mode manager and POST /api/mode (SpecMode)
\* ------------------------------------------------------------------------
\* startApp hands the mode manager a live executor when live trading is
\* enabled and the executor initialises, and asks for the live mode then; the
\* gate is absent, "production" or another environment's name.
ModeEnvs ==
  {<<"env", le, gate>> : le \in BOOLEAN,
                         gate \in {NONE, Some("production"), Some("development")}}

\* The engine as startApp builds it from the mode manager, one clock step
\* before the end of the session; the response of the last mode request is observed
ModeInit ==
  /\ now = StartMs + (MaxTime - 1) * StepMs /\ today = 0 /\ market = InitMarket
  /\ tradingEnabled = FALSE
  /\ exIn \in ModeEnvs
  /\ mmMode = NewModeManager(ModeEnv, IF exIn[2] THEN "live" ELSE "paper")
  /\ executor = getActiveExecutor(mmMode, ModeEnv)
  /\ cfgMode = mmMode
  /\ st = NewTradingState /\ stGen = 0
  /\ pc = "idle" /\ tk = NoTick
  /\ ledger \in InitLedgers
  /\ paperOpenTrade = ledgerGetOpenTrade(ledger)
  /\ venue = InitVenue /\ liveCache = InitLive
  /\ obs = [graceStarts |-> EmptyMap, skippedOpen |-> FALSE, sinceSwitch |-> FALSE,
            lastExit |-> NONE, liveDayRealized |-> 0, maxLoss |-> NONE,
            response |-> 0]
  /\ exOut = NONE

SpecMode == ModeInit /\ [][Next]_vars

\* The request answered 400
SwitchRejected == obs'.response = 400 /\ obs.response # 400

\* C37: the engine's executor is always the executor of the mode manager's
\* mode, and a mode request that is answered 400 (no live executor, or the
\* environment gate forbids live) leaves the mode, the executor, the config,
\* the trading flag and the trading state as they were.
C37_ExecutorFollowsMode ==
  /\ [](executor = mmMode)
  /\ [][SwitchRejected => UNCHANGED <<mmMode, executor, cfgMode, tradingEnabled,
                                      st, stGen>>]_vars

C37_Witness ==
  /\ obs.response = 400 /\ tradingEnabled /\ stGen = 0
  /\ st # NewTradingState /\ executor = mmMode

\* ------------------------------------------------------------------------
\* Notional of the live BUY orders (SpecExec)
\* ------------------------------------------------------------------------
\* C35: every BUY order the live executor posts has a notional, size x
\* price, no greater than the available collateral, maxPerTradeUsd and
\* maxOpenExposureUsd (exOut.usd is the least of the three at the call).
C35_BuyWithinLimits ==
  (exOut.call = "liveOpen" /\ exOut.posted # NONE)
    => Val(exOut.posted).size * Val(exOut.posted).price <= exOut.usd

\* ------------------------------------------------------------------------
\* Pre-settlement exit with executor faults (SpecFault)
\* ------------------------------------------------------------------------
\* The snapshot of the tick is closer to settlement than exitBeforeEndMinutes
PreSettlementDue ==
  LET tl == timeLeftForExit(EvalSignals(tk.signals), now)
  IN isNum(tl) /\ Val(tl) < Cfg(cfgMode).exitBeforeEndMs

AskedToClose(t) == {t.closeAsked[i] : i \in 1..Len(t.closeAsked)}

RlMaxCalls == 4
RlMaxSteps == 2

RlConfigs == [maxTokens : {1, 2}, refillRate : {2, 10}]
RlDelays == {50, 100, 400}

\* constructor: the bucket starts full
NewRateLimiter(cfg, nowMs) ==
  [tokens |-> cfg.maxTokens * 1000, lastRefillMs |-> nowMs,
   totalRequests |-> 0, totalThrottled |-> 0]

\* Mutant of refill: the bucket is not capped at maxTokens.
refill_NoCap(rl, cfg, nowMs) ==
  [rl EXCEPT !.tokens = rl.tokens + (nowMs - rl.lastRefillMs) * cfg.refillRate,
             !.lastRefillMs = nowMs]

\* _refill
refill(rl, cfg, nowMs) ==
  [rl EXCEPT !.tokens = Min(cfg.maxTokens * 1000,
                            rl.tokens + (nowMs - rl.lastRefillMs) * cfg.refillRate),
             !.lastRefillMs = nowMs]

\* tryAcquire: the limiter after the call and what the call returned
tryAcquire(rl, cfg, nowMs) ==
  LET r1 == [refill(rl, cfg, nowMs) EXCEPT !.totalRequests = @ + 1]
  IN IF r1.tokens >= 1000
       THEN [rl |-> [r1 EXCEPT !.tokens = @ - 1000], ok |-> TRUE]
       ELSE [rl |-> [r1 EXCEPT !.totalThrottled = @ + 1], ok |-> FALSE]

\* The limiter is in exOut with the times of the calls that succeeded
RateInit ==
  /\ now = StartMs /\ today = 0 /\ market = InitMarket
  /\ tradingEnabled = FALSE /\ executor = "paper" /\ mmMode = "paper" /\ cfgMode = "paper"
  /\ st = NewTradingState /\ stGen = 0
  /\ pc = "idle" /\ tk = NoTick
  /\ ledger = EmptyMap /\ paperOpenTrade = NONE
  /\ venue = InitVenue /\ liveCache = InitLive
  /\ obs = NoObs
  /\ exIn \in RlConfigs
  /\ exOut = [rl |-> NewRateLimiter(exIn, now), granted |-> <<>>]

RlTryAcquire ==
  /\ exOut.rl.totalRequests < RlMaxCalls
  /\ LET r == tryAcquire(exOut.rl, exIn, now)
     IN exOut' = [rl |-> r.rl,
                  granted |-> IF r.ok THEN Append(exOut.granted, now) ELSE exOut.granted]
  /\ UNCHANGED <<now, today, market, engineVars, pc, tk, execVars, obs, exIn>>

\* getStats refills before it reports
RlGetStats ==
  /\ exOut' = [exOut EXCEPT !.rl = refill(@, exIn, now)]
  /\ UNCHANGED <<now, today, market, engineVars, pc, tk, execVars, obs, exIn>>

RlWait ==
  /\ \E d \in RlDelays :
       /\ now + d <= StartMs + RlMaxSteps * 250
       /\ now' = now + d
  /\ UNCHANGED <<today, market, engineVars, pc, tk, execVars, obs, pureVars>>

RateNext == RlTryAcquire \/ RlGetStats \/ RlWait

SpecRate == RateInit /\ [][RateNext]_vars

\* C38: the token count of a RateLimiter stays within [0, maxTokens], and
\* the calls to tryAcquire that succeed within any stretch of T seconds number
\* at most maxTokens + refillRate x T.
C38_TokensWithinCapacity ==
  /\ exOut.rl.tokens >= 0
  /\ exOut.rl.tokens <= exIn.maxTokens * 1000
  /\ \A i, j \in 1..Len(exOut.granted) :
       i <= j => (j - i + 1) * 1000
                   <= exIn.maxTokens * 1000
                        + exIn.refillRate * (exOut.granted[j] - exOut.granted[i])

C38_Witness ==
  /\ exOut.rl.totalThrottled > 0
  /\ Len(exOut.granted) > exIn.maxTokens
  /\ exOut.rl.tokens > 0 /\ exOut.rl.tokens < 1000

\* ------------------------------------------------------------------------
\* Order lifecycle manager (infrastructure/orders/OrderManager.js).  Every
\* method awaits the CLOB client, so a call is two steps: the client's
\* answer is fixed when the request reaches the venue, and the method goes
\* on with that answer when it is resumed.
\* ------------------------------------------------------------------------
MaxOrders == 2
OrderIds == 1..MaxOrders

ReconcileMinIntervalMs == 5000

\* Status of an order at the venue, and "absent" for getOrder answering null
ApiStatuses == {"live", "matched", "cancelled", "absent"}

\* What client.getOrder can answer for an order: its status, or a rejection
GetOrderAnswers(api, id) == {api[id], "threw"}

\* reconcilePendingOrders, the body of the loop after `await client.getOrder`
ReconcileOne(orders, id, answer) ==
  IF answer = "threw" THEN orders
  ELSE IF answer = "absent" THEN [orders EXCEPT ![id] = "unknown"]
  ELSE IF answer = "matched" THEN [orders EXCEPT ![id] = "filled"]
  ELSE IF answer = "cancelled" THEN [orders EXCEPT ![id] = "cancelled"]
  ELSE IF answer = "live" THEN [orders EXCEPT ![id] = "open"]
  ELSE orders

\* cancelOrder after `await client.cancelOrder` has resolved
MarkCancelled(orders, id) ==
  IF id \in DOMAIN orders THEN [orders EXCEPT ![id] = "cancelled"] ELSE orders

\* cancelAllOrders after `await client.cancelAll` has resolved
MarkAllCancelled(orders) ==
  [id \in DOMAIN orders |->
     IF orders[id] \in {"pending", "open"} THEN "cancelled" ELSE orders[id]]

\* Two orders are tracked as pending and rest at the venue; no call is in
\* flight.  The manager and the venue are in exOut.
OrdersInit ==
  /\ now = StartMs /\ today = 0 /\ market = InitMarket
  /\ tradingEnabled = FALSE /\ executor = "live" /\ mmMode = "live" /\ cfgMode = "live"
  /\ st = NewTradingState /\ stGen = 0
  /\ pc = "idle" /\ tk = NoTick
  /\ ledger = EmptyMap /\ paperOpenTrade = NONE
  /\ venue = InitVenue /\ liveCache = InitLive
  /\ obs = NoObs
  /\ exIn = NONE
  /\ exOut = [orders |-> [id \in OrderIds |-> "pending"],
              api |-> [id \in OrderIds |-> "live"],
              lastReconcileMs |-> 0,
              rec |-> NONE, cancel |-> NONE, cancelAll |-> NONE]

OmUnchanged == UNCHANGED <<now, today, market, engineVars, pc, tk, execVars, obs, exIn>>

\* The venue matches a resting order
OmVenueFill ==
  /\ \E id \in OrderIds :
       /\ exOut.api[id] = "live"
       /\ exOut' = [exOut EXCEPT !.api[id] = "matched"]
  /\ OmUnchanged

\* The venue forgets an order that is no longer resting
OmVenueDrop ==
  /\ \E id \in OrderIds :
       /\ exOut.api[id] \in {"matched", "cancelled"}
       /\ exOut' = [exOut EXCEPT !.api[id] = "absent"]
  /\ OmUnchanged

\* cancelOrder(orderId) up to its await: the venue cancels a resting order;
\* for any other order the client's promise resolves or rejects
OmCancelCall ==
  /\ exOut.cancel = NONE
  /\ \E id \in OrderIds, ok \in BOOLEAN :
       exOut' = [exOut EXCEPT !.cancel = Some([id |-> id, ok |-> ok]),
                              !.api[id] = IF ok /\ @ = "live" THEN "cancelled" ELSE @]
  /\ OmUnchanged

OmCancelReturn ==
  /\ exOut.cancel # NONE
  /\ exOut' = [exOut EXCEPT !.cancel = NONE,
                            !.orders = IF Val(exOut.cancel).ok
                                         THEN MarkCancelled(@, Val(exOut.cancel).id)
                                         ELSE @]
  /\ OmUnchanged

\* cancelAllOrders up to its await
OmCancelAllCall ==
  /\ exOut.cancelAll = NONE
  /\ \E ok \in BOOLEAN :
       exOut' = [exOut EXCEPT !.cancelAll = Some(ok),
                              !.api = IF ok
                                        THEN [id \in OrderIds |->
                                                IF @[id] = "live" THEN "cancelled" ELSE @[id]]
                                        ELSE @]
  /\ OmUnchanged

OmCancelAllReturn ==
  /\ exOut.cancelAll # NONE
  /\ exOut' = [exOut EXCEPT !.cancelAll = NONE,
                            !.orders = IF Val(exOut.cancelAll)
                                         THEN MarkAllCancelled(@) ELSE @]
  /\ OmUnchanged

\* reconcilePendingOrders up to the loop; a call within minIntervalMs of the
\* last one returns at once
OmReconcileStart ==
  /\ exOut.rec = NONE
  /\ now - exOut.lastReconcileMs >= ReconcileMinIntervalMs
  /\ exOut' = [exOut EXCEPT !.lastReconcileMs = now,
                            !.rec = Some([next |-> 1, answer |-> NONE])]
  /\ OmUnchanged

\* The loop reaches an order: it skips one that is neither pending nor open,
\* and asks the venue about any other
OmReconcileAsk ==
  /\ exOut.rec # NONE /\ Val(exOut.rec).answer = NONE
  /\ LET id == Val(exOut.rec).next
     IN IF id > MaxOrders
          THEN exOut' = [exOut EXCEPT !.rec = NONE]
          ELSE IF exOut.orders[id] \notin {"pending", "open"}
            THEN exOut' = [exOut EXCEPT !.rec = Some([next |-> id + 1, answer |-> NONE])]
            ELSE \E a \in GetOrderAnswers(exOut.api, id) :
                   exOut' = [exOut EXCEPT !.rec = Some([next |-> id, answer |-> Some(a)])]
  /\ OmUnchanged

OmReconcileResume ==
  /\ exOut.rec # NONE /\ Val(exOut.rec).answer # NONE
  /\ LET id == Val(exOut.rec).next
     IN exOut' = [exOut EXCEPT
                    !.orders = ReconcileOne(@, id, Val(Val(exOut.rec).answer)),
                    !.rec = Some([next |-> id + 1, answer |-> NONE])]
  /\ OmUnchanged

OmAdvance ==
  /\ now < StartMs + MaxTime * StepMs
  /\ now' = now + StepMs
  /\ UNCHANGED <<today, market, engineVars, pc, tk, execVars, obs, pureVars>>

OrdersNext ==
  \/ OmVenueFill \/ OmVenueDrop
  \/ OmCancelCall \/ OmCancelReturn
  \/ OmCancelAllCall \/ OmCancelAllReturn
  \/ OmReconcileStart \/ OmReconcileAsk \/ OmReconcileResume
  \/ OmAdvance

SpecOrders == OrdersInit /\ [][OrdersNext]_vars

\* C39: a tracked order whose status is filled or cancelled keeps that
\* status, whatever cancelOrder, cancelAllOrders and reconcilePendingOrders
\* do afterwards.
C39_TerminalStatusStays ==
  [][\A id \in OrderIds :
       exOut.orders[id] \in {"filled", "cancelled"}
         => exOut'.orders[id] = exOut.orders[id]]_vars


\* ------------------------------------------------------------------------
\* Coinbase trade stream (startCoinbaseTradeStream).  The closure's `ws`
\* is the socket the last connect() made, or 0 for null; every socket made
\* keeps its own handlers, which all go through the one scheduleReconnect.
\* ------------------------------------------------------------------------
MaxSockets == 3
MaxTimers == 2
SocketIds == 1..MaxSockets

InitialReconnectMs == 500
MaxReconnectIntervalMs == 10000

\* A socket that is connecting or open, and one that has been terminated or
\* has failed and whose 'close' event is still to come
SockLive == {"connecting", "open"}

NewStream ==
  [ws |-> 0, closed |-> FALSE, reconnectMs |-> InitialReconnectMs,
   socks |-> [id \in SocketIds |-> "none"], timers |-> 0, made |-> 0]

\* connect()
connect(s) ==
  IF s.closed THEN s
  ELSE [s EXCEPT !.made = @ + 1, !.ws = s.made + 1, !.socks[s.made + 1] = "connecting"]

\* scheduleReconnect(): terminate whatever `ws` is, forget it, arm a timer
scheduleReconnect(s) ==
  IF s.closed THEN s
  ELSE [s EXCEPT !.socks = IF s.ws # 0 /\ @[s.ws] \in SockLive
                             THEN [@ EXCEPT ![s.ws] = "closing"] ELSE @,
                 !.ws = 0,
                 !.reconnectMs = Min(MaxReconnectIntervalMs, (@ * 3) \div 2),
                 !.timers = @ + 1]

\* ws.on("open"): ws.send throws when `ws` is null or is not an open socket
onOpen(s) ==
  LET s1 == [s EXCEPT !.reconnectMs = InitialReconnectMs]
  IN IF s1.ws # 0 /\ s1.socks[s1.ws] = "open" THEN s1 ELSE scheduleReconnect(s1)

\* startCoinbaseTradeStream has called connect(); the stream is in exOut
StreamInit ==
  /\ now = StartMs /\ today = 0 /\ market = InitMarket
  /\ tradingEnabled = FALSE /\ executor = "paper" /\ mmMode = "paper" /\ cfgMode = "paper"
  /\ st = NewTradingState /\ stGen = 0
  /\ pc = "idle" /\ tk = NoTick
  /\ ledger = EmptyMap /\ paperOpenTrade = NONE
  /\ venue = InitVenue /\ liveCache = InitLive
  /\ obs = NoObs
  /\ exIn = NONE
  /\ exOut = connect(NewStream)

StreamUnchanged == UNCHANGED <<now, today, market, engineVars, pc, tk, execVars, obs, exIn>>

\* 'open' of a socket
SockOpen ==
  /\ \E id \in SocketIds :
       /\ exOut.socks[id] = "connecting"
       /\ exOut' = onOpen([exOut EXCEPT !.socks[id] = "open"])
  /\ StreamUnchanged

\* A message of type "error" on an open socket
SockMessageError ==
  /\ exOut.timers < MaxTimers
  /\ \E id \in SocketIds :
       /\ exOut.socks[id] = "open"
       /\ exOut' = scheduleReconnect(exOut)
  /\ StreamUnchanged

\* 'error' of a socket; its 'close' follows
SockError ==
  /\ exOut.timers < MaxTimers
  /\ \E id \in SocketIds :
       /\ exOut.socks[id] \in SockLive
       /\ exOut' = scheduleReconnect([exOut EXCEPT !.socks[id] = "closing"])
  /\ StreamUnchanged

\* 'close' of a socket: the peer closed it, or it was terminated or failed
SockClose ==
  /\ exOut.timers < MaxTimers
  /\ \E id \in SocketIds :
       /\ exOut.socks[id] \in {"open", "closing"}
       /\ exOut' = scheduleReconnect([exOut EXCEPT !.socks[id] = "dead"])
  /\ StreamUnchanged

\* setTimeout(connect, wait) fires
ReconnectTimer ==
  /\ exOut.timers > 0
  /\ exOut.made < MaxSockets
  /\ exOut' = connect([exOut EXCEPT !.timers = @ - 1])
  /\ StreamUnchanged

\* close() of the returned handle
StreamClose ==
  /\ ~exOut.closed
  /\ exOut' = [exOut EXCEPT !.closed = TRUE,
                            !.socks = IF exOut.ws # 0 /\ @[exOut.ws] \in SockLive
                                        THEN [@ EXCEPT ![exOut.ws] = "closing"] ELSE @,
                            !.ws = 0]
  /\ StreamUnchanged

StreamNext ==
  \/ SockOpen \/ SockMessageError \/ SockError \/ SockClose
  \/ ReconnectTimer \/ StreamClose

SpecStream == StreamInit /\ [][StreamNext]_vars

\* C40: at any time at most one socket of the stream is connecting or open,
\* or one reconnect timer is armed, never two of these together.
C40_OneConnection ==
  Cardinality({id \in SocketIds : exOut.socks[id] \in SockLive}) + exOut.timers <= 1

====
